---- MODULE Spec2Model ----
(***************************************************************************)
(* Collaborative Canvas: the per-room drawing state kept by the server     *)
(* (createDrawingState: ops, redoStack, appendOp, patchPoints, globalUndo, *)
(* globalRedo, clear), the socket handlers that drive it, and the canvas   *)
(* controller of each client (strokes, shapes, activeStroke, the locally   *)
(* committed set) that merges what the server broadcasts.                  *)
(*                                                                         *)
(* Twelve specifications share the variables.  SpecLog drives one drawing  *)
(* state with every sequence of its operations.  SpecReplicas delivers one *)
(* set of operations to two independent drawing states.  Spec is the room: *)
(* the server, the clients whose canvas controller is followed (Clients)   *)
(* and the other participants (Peers), who act on the room through the     *)
(* events their clients emit.  SpecSocket feeds the server's stroke        *)
(* handlers every event a joined socket can send, and SpecSocketHistory    *)
(* adds the history events.  SpecView feeds one canvas controller its      *)
(* pointer and every event the server can relay; SpecRender follows its    *)
(* redraw flag and offscreen canvas.  SpecRooms is the server with the     *)
(* rooms of createRooms, SpecRoomEvents the server with one room and every *)
(* event of a connection.  SpecMalformed feeds the drawing state           *)
(* operations that lack fields.  SpecPersist saves the room to its file    *)
(* and loads it.  SpecLink follows the client's socket through its         *)
(* connections and join timers.                                            *)
(*                                                                         *)
(* Conventions.  A JavaScript value that is undefined where the code only  *)
(* tests it for truthiness (serverTimestamp, isDeleted) is modelled by the *)
(* falsy value of its type (0, FALSE).  Operation ids stand for the        *)
(* non-empty strings minted by newOpId and are numbered from 1.  A point   *)
(* {x, y, t} is modelled by one coordinate in units of 0.00001 px.         *)
(***************************************************************************)
EXTENDS Integers, Sequences, FiniteSets, TLC

\* ------------------------------------------------------------------ bounds
MaxOps == 2        \* operations created in one behaviour
MaxGlobals == 1    \* undo, redo and clear requests sent in one behaviour
MaxRejoins == 1    \* reconnections in one behaviour
MaxInFlight == 2   \* events in flight when a client emits one more
MaxTime == 2       \* author clock values (Date.now() on a client): 1..MaxTime
MaxClock == 2      \* server clock values (Date.now() on the server): 1..MaxClock
MaxPts == 2        \* points in one stroke of a client that is followed
MaxPeerPts == 2    \* points in one stroke of another participant
MaxConnects == 4   \* connections the socket of one client makes
MaxLogLen == 3     \* operations in the log of a server fed any events

Users == {"u1", "u2"}
Ids == 1..MaxOps
Times == 1..MaxTime
Clocks == 1..MaxClock
Types == {"stroke", "shape"}

\* The raw coordinates a pointer event can produce, in units of 0.00001 px.
RawCoords == {14}

VARIABLES
  ops,          \* the room's operation log (state.ops)
  redoStack,    \* the room's redo stack (ids)
  svLast,       \* the operation the log handled last ("none" at start)
  svPrev,       \* the operation it handled before that
  svPre,        \* the drawing state svLast was applied to
  svId,         \* the id svLast was given if it was patchPoints, else 0
  ended,        \* the ids for which the server has received stroke:end
  opSet,        \* operations sent to two independent logs: id -> operation
  replicaA,     \* one independent drawing state
  replicaB,     \* another
  arrivedA,     \* ids in the order they reached replicaA
  arrivedB,     \* ids in the order they reached replicaB
  joined,       \* the sockets whose joinedRoom is the room
  toServer,     \* per client, the events it emitted that the server has not handled
  toClient,     \* per client, the events emitted to it that it has not handled
  handledPinned, \* per client, the kinds of event it handled that named a stroke
                \* it had committed by then
  hasJoined,    \* per client, whether it emitted join on its connection
  strokes,      \* per client, the strokes of its view
  shapes,       \* per client, the shapes of its view
  activeStroke, \* per client, the stroke being drawn (NoStroke if none)
  isPointerDown,
  activeShared, \* per client, whether the strokes array holds the activeStroke object
  locallyCommittedStrokes,      \* per client, the ids it committed in endStroke
  committedStrokeCoordinates,   \* per client, id -> the points stored at commit
  lastStamp,    \* per client, the last Date.now() it stamped an operation with
  nextId,       \* the next operation id newOpId mints
  globalsSent,  \* how many undo, redo and clear requests each participant sent
  rejoins,      \* how many times a client reconnected
  aux           \* what the specifications that follow one part of the
                \* program add to the room: a record of the fields below

\* The ids of the strokes a pointerleave ended, where the specification
\* tells pointerleave from pointerup.
pointerLeft == aux.pointerLeft

\* The id of the last stroke:patch a client handled, if its view held no
\* stroke of that id then, where the specification records it.
unknownPatched == aux.unknownPatched

\* The Map of createRooms: room name -> the room (its drawing state and its
\* users), where the server keeps several rooms.
rooms == aux.rooms

\* Per connection: whether it is up, its joinedRoom and the rooms
\* socket.join put it in.
sockets == aux.sockets

\* The event the server handled last, its socket and its room.
served == aux.served

\* Per client, the flag that asks render for a full redraw, where the
\* specification follows the rendering.
needsRedraw == aux.needsRedraw

\* Per client, what redrawAll drew last on the offscreen canvas.
offscreen == aux.offscreen

\* The file the room was saved to: whether it exists and the operations it
\* holds.
roomFile == aux.roomFile

\* The socket of the client that is followed: whether it is connected, the
\* connections it made, the join timers that wait, the joins emitted on
\* each connection.
link == aux.link

logVars == <<ops, redoStack, svLast, svPrev, svPre, svId, ended>>
replicaVars == <<opSet, replicaA, replicaB, arrivedA, arrivedB>>
auxVars == aux
netVars == <<joined, toServer, toClient, handledPinned, hasJoined>>
viewVars == <<strokes, shapes, activeStroke, isPointerDown, activeShared,
              locallyCommittedStrokes, committedStrokeCoordinates>>
countVars == <<lastStamp, nextId, globalsSent, rejoins>>
clientVars == <<netVars, viewVars, countVars>>
vars == <<logVars, replicaVars, auxVars, clientVars>>

\* ------------------------------------------------------------- sequences
Range(s) == {s[i] : i \in 1..Len(s)}

SeqsUpTo(S, n) == UNION {[1..k -> S] : k \in 0..n}

\* Array.prototype.sort with comparator Cmp: a stable sort, so an element
\* lands after every element that compares smaller and after the equal
\* elements that preceded it in the array.
StableSort(s, Cmp(_, _)) ==
  LET n == Len(s)
      pos(i) == 1 + Cardinality({j \in 1..n :
                       \/ Cmp(s[j], s[i]) < 0
                       \/ Cmp(s[j], s[i]) = 0 /\ j < i})
  IN  [k \in 1..n |-> s[CHOOSE i \in 1..n : pos(i) = k]]

\* String.prototype.localeCompare on user ids: negative, zero or positive.
\* An argument that is undefined is compared as the string "undefined", which
\* collates after "u1" and "u2".
LocaleCompare(a, b) ==
  LET rank(u) == IF u = "u1" THEN 1 ELSE IF u = "u2" THEN 2 ELSE 3
  IN  rank(a) - rank(b)

\* No stroke (activeStroke === null).
NoStroke ==
  [id |-> 0, userId |-> "", type |-> "none", timestamp |-> 0,
   serverTimestamp |-> 0, isDeleted |-> FALSE, points |-> <<>>, color |-> 0]

\* The initial value of everything outside the room's drawing state.
InitClients ==
  /\ joined = {}
  /\ toServer = [c \in Users |-> <<>>]
  /\ toClient = [c \in Users |-> <<>>]
  /\ handledPinned = [c \in Users |-> {}]
  /\ hasJoined = [c \in Users |-> FALSE]
  /\ strokes = [c \in Users |-> <<>>]
  /\ shapes = [c \in Users |-> <<>>]
  /\ activeStroke = [c \in Users |-> NoStroke]
  /\ isPointerDown = [c \in Users |-> FALSE]
  /\ activeShared = [c \in Users |-> FALSE]
  /\ locallyCommittedStrokes = [c \in Users |-> {}]
  /\ committedStrokeCoordinates = [c \in Users |-> <<>>]
  /\ lastStamp = [c \in Users |-> 0]
  /\ nextId = 1
  /\ globalsSent = [u \in Users |-> 0]
  /\ rejoins = 0
  /\ aux = [pointerLeft |-> {},
            unknownPatched |-> {},
            rooms |-> <<>>,
            sockets |-> [s \in Users |->
                          [connected |-> FALSE, joinedRoom |-> "",
                           member |-> {}]],
            served |-> [socket |-> "", room |-> "", type |-> "none"],
            needsRedraw |-> [c \in Users |-> TRUE],
            offscreen |-> [c \in Users |-> <<>>],
            roomFile |-> [exists |-> FALSE, ops |-> <<>>],
            link |-> [connected |-> FALSE, conn |-> 0, once |-> TRUE,
                      timers |-> <<>>,
                      joins |-> [k \in 1..MaxConnects |-> 0]]]

\* ------------------------------------------------- server: drawing state
\* The comparator of appendOp's sort.
ServerCompare(a, b) ==
  IF a.timestamp # b.timestamp THEN a.timestamp - b.timestamp
  ELSE IF a.serverTimestamp # b.serverTimestamp
       THEN a.serverTimestamp - b.serverTimestamp
       ELSE LocaleCompare(a.userId, b.userId)

\* appendOp without its trailing sort.
AppendOpNoSort(st, op, now) ==
  [ops |-> Append(st.ops, [op EXCEPT !.isDeleted = FALSE,
                                     !.serverTimestamp = now]),
   redoStack |-> <<>>]

\* appendOp that forgets to invalidate the redo stack.
AppendOpKeepRedo(st, op, now) ==
  [ops |-> StableSort(Append(st.ops, [op EXCEPT !.isDeleted = FALSE,
                                                !.serverTimestamp = now]),
                      ServerCompare),
   redoStack |-> st.redoStack]

\* appendOp(op) at server time now.
AppendOp(st, op, now) ==
  LET strokeWithTimestamp ==
        [op EXCEPT !.isDeleted = FALSE,
                   !.serverTimestamp = now,
                   !.timestamp = IF op.timestamp # 0 THEN op.timestamp ELSE now]
  IN  [ops |-> StableSort(Append(st.ops, strokeWithTimestamp), ServerCompare),
       redoStack |-> <<>>]

\* ops.find(o => o.id === id): the index of the first match, 0 if none.
FindIndex(s, id) ==
  IF \E i \in 1..Len(s) : s[i].id = id
  THEN CHOOSE i \in 1..Len(s) :
         s[i].id = id /\ \A j \in 1..(i - 1) : s[j].id # id
  ELSE 0

\* patchPoints that stores the points under an id the log does not hold.
PatchPointsUpsert(st, id, points) ==
  IF \E i \in 1..Len(st.ops) : st.ops[i].id = id
  THEN [st EXCEPT !.ops[FindIndex(st.ops, id)].points = points]
  ELSE [st EXCEPT !.ops = Append(@, [id |-> id, userId |-> "u1",
                                     type |-> "stroke", timestamp |-> 0,
                                     serverTimestamp |-> 0,
                                     isDeleted |-> FALSE, points |-> points,
                                     color |-> 0])]

\* patchPoints that stamps the operation anew when it stores the points.
PatchPointsRestamp(st, id, points) ==
  LET i == FindIndex(st.ops, id)
  IN  IF i = 0 THEN st
      ELSE [st EXCEPT !.ops[i].points = points,
                      !.ops[i].serverTimestamp = @ + 1]

\* patchPoints(id, points)
PatchPoints(st, id, points) ==
  LET i == FindIndex(st.ops, id)
  IN  IF i = 0 THEN st
      ELSE [st EXCEPT !.ops[i].points = points]

\* The index globalUndo's loop stops at: the last op that is not deleted.
LastActive(s) ==
  IF \E i \in 1..Len(s) : ~s[i].isDeleted
  THEN CHOOSE i \in 1..Len(s) :
         ~s[i].isDeleted /\ \A j \in (i + 1)..Len(s) : s[j].isDeleted
  ELSE 0

\* globalUndo scanning from the front of the log instead of the end.
GlobalUndoFirst(st) ==
  IF \E i \in 1..Len(st.ops) : ~st.ops[i].isDeleted
  THEN LET i == CHOOSE k \in 1..Len(st.ops) :
                  ~st.ops[k].isDeleted /\ \A j \in 1..(k - 1) : st.ops[j].isDeleted
       IN  [ops |-> [st.ops EXCEPT ![i].isDeleted = TRUE],
            redoStack |-> Append(st.redoStack, st.ops[i].id)]
  ELSE st

\* globalUndo that removes the operation from the log instead of flagging it.
GlobalUndoErase(st) ==
  LET i == LastActive(st.ops)
  IN  IF i = 0 THEN st
      ELSE [ops |-> SubSeq(st.ops, 1, i - 1)
                      \o SubSeq(st.ops, i + 1, Len(st.ops)),
            redoStack |-> Append(st.redoStack, st.ops[i].id)]

\* globalUndo()
GlobalUndo(st) ==
  LET i == LastActive(st.ops)
  IN  IF i = 0 THEN st
      ELSE [ops |-> [st.ops EXCEPT ![i].isDeleted = TRUE],
            redoStack |-> Append(st.redoStack, st.ops[i].id)]

\* globalRedo taking the oldest entry of the redo stack (shift, not pop).
GlobalRedoShift(st) ==
  IF st.redoStack = <<>> THEN st
  ELSE LET i == FindIndex(st.ops, Head(st.redoStack))
       IN  IF i = 0 THEN [st EXCEPT !.redoStack = Tail(st.redoStack)]
           ELSE [ops |-> [st.ops EXCEPT ![i].isDeleted = FALSE],
                 redoStack |-> Tail(st.redoStack)]

\* globalRedo that re-activates every operation.
GlobalRedoAll(st) ==
  IF st.redoStack = <<>> THEN st
  ELSE [ops |-> [i \in 1..Len(st.ops) |-> [st.ops[i] EXCEPT !.isDeleted = FALSE]],
        redoStack |-> SubSeq(st.redoStack, 1, Len(st.redoStack) - 1)]

\* globalRedo()
GlobalRedo(st) ==
  IF st.redoStack = <<>> THEN st
  ELSE LET n == Len(st.redoStack)
           id == st.redoStack[n]
           popped == SubSeq(st.redoStack, 1, n - 1)
           i == FindIndex(st.ops, id)
       IN  IF i = 0 THEN [st EXCEPT !.redoStack = popped]
           ELSE [ops |-> [st.ops EXCEPT ![i].isDeleted = FALSE],
                 redoStack |-> popped]

\* clear that empties the log and keeps the redo stack.
ClearKeepRedo(st) == [ops |-> <<>>, redoStack |-> st.redoStack]

\* clear()
Clear(st) == [ops |-> <<>>, redoStack |-> <<>>]

\* The room's drawing state as one value.
State == [ops |-> ops, redoStack |-> redoStack]

\* The colour, width and mode the toolbar is set to (getColor, getStrokeWidth,
\* getTool).  The three travel together, so one field stands for them.
ToolColor == 1

\* The operation a client sends: no serverTimestamp, not deleted.
NewOp(id, user, type, ts, points) ==
  [id |-> id, userId |-> user, type |-> type, timestamp |-> ts,
   serverTimestamp |-> 0, isDeleted |-> FALSE, points |-> points,
   color |-> ToolColor]

\* capture of a pointer coordinate: Number(x.toFixed(4))
Round4(v) == ((v + 5) \div 10) * 10

Coords == {Round4(v) : v \in RawCoords}

\* -------------------------------------------- the log driven directly
\* Install the drawing state st produced by operation name, remembering
\* the operation and the state it was applied to.
ApplyTo(st, name, id) ==
  /\ ops' = st.ops
  /\ redoStack' = st.redoStack
  /\ svLast' = name
  /\ svPrev' = svLast
  /\ svPre' = State
  /\ svId' = id
  /\ UNCHANGED <<ended, replicaVars, auxVars, clientVars>>

Apply(st, name) == ApplyTo(st, name, 0)

\* Ids are minted by newOpId (a random UUID per operation): an appended
\* operation carries an id that is not in the log.
LogAppend ==
  \E id \in Ids, u \in Users, ts \in Times, now \in Clocks, p \in Coords :
    /\ \A i \in 1..Len(ops) : ops[i].id # id
    /\ Apply(AppendOp(State, NewOp(id, u, "stroke", ts, <<p>>), now), "append")

LogPatch ==
  \E id \in Ids, pts \in SeqsUpTo(Coords, MaxPts) :
    ApplyTo(PatchPoints(State, id, pts), "patch", id)

LogUndo == Apply(GlobalUndo(State), "undo")

LogRedo == Apply(GlobalRedo(State), "redo")

LogClear == Apply(Clear(State), "clear")

Init ==
  /\ ops = <<>>
  /\ redoStack = <<>>
  /\ svLast = "none"
  /\ svPrev = "none"
  /\ svPre = [ops |-> <<>>, redoStack |-> <<>>]
  /\ svId = 0
  /\ ended = {}
  /\ opSet = <<>>
  /\ replicaA = [ops |-> <<>>, redoStack |-> <<>>]
  /\ replicaB = [ops |-> <<>>, redoStack |-> <<>>]
  /\ arrivedA = <<>>
  /\ arrivedB = <<>>
  /\ InitClients

NextLog == LogAppend \/ LogPatch \/ LogUndo \/ LogRedo \/ LogClear

SpecLog == Init /\ [][NextLog]_vars

\* ------------------------------------- two logs fed the same operations
\* Two drawing states (createDrawingState called twice), each stamping what
\* it receives with its own clock, which does not run backwards.
EmptyState == [ops |-> <<>>, redoStack |-> <<>>]

LastStamp(st) ==
  IF st.ops = <<>> THEN 1
  ELSE CHOOSE m \in {st.ops[i].serverTimestamp : i \in 1..Len(st.ops)} :
         \A i \in 1..Len(st.ops) : st.ops[i].serverTimestamp <= m

InitReplicas ==
  /\ ops = <<>>
  /\ redoStack = <<>>
  /\ svLast = "none"
  /\ svPrev = "none"
  /\ svPre = EmptyState
  /\ svId = 0
  /\ ended = {}
  /\ \E u \in [Ids -> Users], ts \in [Ids -> Times] :
       opSet = [id \in Ids |-> NewOp(id, u[id], "stroke", ts[id], <<>>)]
  /\ replicaA = EmptyState
  /\ replicaB = EmptyState
  /\ arrivedA = <<>>
  /\ arrivedB = <<>>
  /\ InitClients

DeliverA ==
  \E id \in Ids, now \in Clocks :
    /\ id \notin Range(arrivedA)
    /\ now >= LastStamp(replicaA)
    /\ replicaA' = AppendOp(replicaA, opSet[id], now)
    /\ arrivedA' = Append(arrivedA, id)
    /\ UNCHANGED <<logVars, clientVars, auxVars, opSet, replicaB, arrivedB>>

DeliverB ==
  \E id \in Ids, now \in Clocks :
    /\ id \notin Range(arrivedB)
    /\ now >= LastStamp(replicaB)
    /\ replicaB' = AppendOp(replicaB, opSet[id], now)
    /\ arrivedB' = Append(arrivedB, id)
    /\ UNCHANGED <<logVars, clientVars, auxVars, opSet, replicaA, arrivedA>>

NextReplicas == DeliverA \/ DeliverB

SpecReplicas == InitReplicas /\ [][NextReplicas]_vars

\* ------------------------------------------------------ client: the view
\* The comparator every client-side sort uses (redrawAll and the handlers).
ClientCompare(a, b) ==
  LET aTime == a.timestamp
      bTime == b.timestamp
      aServerTime == IF a.serverTimestamp # 0 THEN a.serverTimestamp ELSE aTime
      bServerTime == IF b.serverTimestamp # 0 THEN b.serverTimestamp ELSE bTime
  IN  IF aTime # bTime THEN aTime - bTime
      ELSE IF aServerTime # bServerTime THEN aServerTime - bServerTime
           ELSE LocaleCompare(a.userId, b.userId)

Abs(x) == IF x < 0 THEN -x ELSE x

\* 0.01 px, the mismatch above which redrawAll rewrites a committed stroke.
RedrawTolerance == 1000

\* canvasPointFromEvent
CanvasPoint(raw) == Round4(raw)

\* The stored coordinates take the place of the points of a committed stroke.
Restore(s, committed, coords) ==
  IF s.id \in committed /\ s.id \in DOMAIN coords
  THEN [s EXCEPT !.points = coords[s.id]]
  ELSE s

\* redrawAll and drawStroke: what they change in the strokes they render.  A
\* committed stroke whose first point is missing or off by more than the
\* tolerance gets its points back from the stored coordinates.
RedrawAll(ss, committed, coords) ==
  [i \in 1..Len(ss) |->
     LET s == ss[i]
     IN  IF /\ ~s.isDeleted
            /\ s.id \in committed
            /\ s.id \in DOMAIN coords
            /\ Len(coords[s.id]) > 0
            /\ \/ Len(s.points) = 0
               \/ Abs(s.points[1] - coords[s.id][1]) > RedrawTolerance
         THEN [s EXCEPT !.points = coords[s.id]]
         ELSE s]

MapSeq(ss, F(_)) == [i \in 1..Len(ss) |-> F(ss[i])]

IsStroke(o) == o.type = "stroke"
IsShape(o) == o.type = "shape"

\* The order in which redrawAll draws the operations of client c.
RenderOrder(c) == StableSort(strokes[c] \o shapes[c], ClientCompare)

\* The points drawStroke renders for stroke s on client c.
PointsToRender(c, s) ==
  IF /\ s.id \in locallyCommittedStrokes[c]
     /\ s.id \in DOMAIN committedStrokeCoordinates[c]
     /\ Len(committedStrokeCoordinates[c][s.id]) > 0
  THEN committedStrokeCoordinates[c][s.id]
  ELSE s.points

\* ---------------------------------------------------------- the network
Msg(type, op, id, points, list) ==
  [type |-> type, op |-> op, id |-> id, points |-> points, list |-> list]

RECURSIVE SumLen(_, _)
SumLen(q, S) ==
  IF S = {} THEN 0
  ELSE LET c == CHOOSE x \in S : TRUE
       IN  Len(q[c]) + SumLen(q, S \ {c})

\* The events emitted and not yet handled, in both directions.
InFlight == SumLen(toServer, Users) + SumLen(toClient, Users)

\* socket.emit on client c
Emit(c, m) ==
  /\ InFlight < MaxInFlight
  /\ toServer' = [toServer EXCEPT ![c] = Append(@, m)]

\* io.to(room).emit: to every socket that joined the room
Broadcast(m) ==
  /\ toClient' = [c \in Users |->
                    IF c \in joined THEN Append(toClient[c], m) ELSE toClient[c]]
  /\ UNCHANGED handledPinned

\* The operation ids an event names.
Named(m) == {m.op.id, m.id} \cup {m.list[i].id : i \in 1..Len(m.list)}

\* The server takes the next event of client c off its connection.
Taken(c, type) ==
  /\ toServer[c] # <<>>
  /\ Head(toServer[c]).type = type
  /\ toServer' = [toServer EXCEPT ![c] = Tail(@)]

\* Client c takes the next event off its connection.
Received(c, type) ==
  /\ toClient[c] # <<>>
  /\ Head(toClient[c]).type = type
  /\ toClient' = [toClient EXCEPT ![c] = Tail(@)]
  /\ handledPinned' =
       [handledPinned EXCEPT ![c] =
          IF Named(Head(toClient[c])) \cap locallyCommittedStrokes[c] # {}
          THEN @ \cup {type} ELSE @]

\* Install drawing state st as the room's.
Install(st) ==
  /\ ops' = st.ops
  /\ redoStack' = st.redoStack
  /\ UNCHANGED <<svLast, svPrev, svPre, svId, ended>>

\* --------------------------------------------------- client: user input
\* joinRoom, 100 ms after the connection is up.  The user draws after that.
Join(c) ==
  /\ ~hasJoined[c]
  /\ hasJoined' = [hasJoined EXCEPT ![c] = TRUE]
  /\ Emit(c, Msg("join", NoStroke, 0, <<>>, <<>>))
  /\ UNCHANGED <<logVars, replicaVars, auxVars, joined, toClient, handledPinned, viewVars, countVars>>

\* The connection drops and comes back while nothing is in flight: the new
\* socket has joined no room, and the client will emit join again.
Reconnect(c) ==
  /\ hasJoined[c]
  /\ c \in joined
  /\ toServer[c] = <<>>
  /\ toClient[c] = <<>>
  /\ rejoins < MaxRejoins
  /\ rejoins' = rejoins + 1
  /\ hasJoined' = [hasJoined EXCEPT ![c] = FALSE]
  /\ joined' = joined \ {c}
  /\ UNCHANGED <<logVars, replicaVars, auxVars, toServer, toClient, handledPinned, viewVars,
                 lastStamp, nextId, globalsSent>>

\* startStroke with the brush or the eraser
StartStroke(c) ==
  /\ hasJoined[c]
  /\ ~isPointerDown[c]
  /\ activeStroke[c].id = 0
  /\ nextId <= MaxOps
  /\ \E ts \in Times, raw \in RawCoords :
       /\ ts > lastStamp[c]
       /\ LET op == NewOp(nextId, c, "stroke", ts, <<CanvasPoint(raw)>>)
          IN  /\ activeStroke' = [activeStroke EXCEPT ![c] = op]
              /\ Emit(c, Msg("stroke:start", op, op.id, <<>>, <<>>))
       /\ lastStamp' = [lastStamp EXCEPT ![c] = ts]
  /\ isPointerDown' = [isPointerDown EXCEPT ![c] = TRUE]
  /\ nextId' = nextId + 1
  /\ UNCHANGED <<logVars, replicaVars, auxVars, joined, toClient, handledPinned, hasJoined, strokes,
                 shapes, locallyCommittedStrokes, committedStrokeCoordinates,
                 activeShared, globalsSent, rejoins>>

\* moveStroke: the point is pushed on activeStroke.points, and the update is
\* sent unless the throttle holds it back.  When the strokes array holds the
\* activeStroke object itself, the push shows there too.
MoveStroke(c) ==
  /\ isPointerDown[c]
  /\ activeStroke[c].id # 0
  /\ Len(activeStroke[c].points) < MaxPts
  /\ \E raw \in RawCoords, send \in BOOLEAN :
       LET pts == Append(activeStroke[c].points, CanvasPoint(raw))
       IN  /\ activeStroke' = [activeStroke EXCEPT ![c].points = pts]
           /\ strokes' =
                [strokes EXCEPT ![c] =
                   IF activeShared[c]
                   THEN [i \in 1..Len(@) |->
                           IF @[i].id = activeStroke[c].id
                           THEN [@[i] EXCEPT !.points = pts] ELSE @[i]]
                   ELSE @]
           /\ IF send
              THEN Emit(c, Msg("stroke:update", NoStroke, activeStroke[c].id, pts, <<>>))
              ELSE UNCHANGED toServer
  /\ UNCHANGED <<logVars, replicaVars, auxVars, joined, toClient, handledPinned, hasJoined, shapes,
                 isPointerDown, locallyCommittedStrokes,
                 committedStrokeCoordinates, activeShared, countVars>>

\* endStroke, which endAny calls on pointerup and on pointerleave alike; left
\* tells whether the event is recorded as a pointerleave.
EndStrokeOn(c, left) ==
  /\ activeStroke[c].id # 0
  /\ aux' = [aux EXCEPT !.pointerLeft =
                IF left THEN pointerLeft \cup {activeStroke[c].id}
                ELSE pointerLeft]
  /\ LET a == activeStroke[c]
         lockedPointsRounded == [i \in 1..Len(a.points) |-> Round4(a.points[i])]
         committed == locallyCommittedStrokes[c] \cup {a.id}
         coords == (a.id :> lockedPointsRounded) @@ committedStrokeCoordinates[c]
         strokeToCommit == [a EXCEPT !.points = lockedPointsRounded,
                                     !.isDeleted = FALSE]
         existingIndex == FindIndex(strokes[c], a.id)
         placed == IF existingIndex > 0
                   THEN [strokes[c] EXCEPT ![existingIndex] = strokeToCommit]
                   ELSE Append(strokes[c], strokeToCommit)
         restored == MapSeq(placed, LAMBDA s :
                       IF s.id = a.id THEN Restore(s, committed, coords) ELSE s)
         sorted == StableSort(restored, ClientCompare)
     IN  /\ locallyCommittedStrokes' =
              [locallyCommittedStrokes EXCEPT ![c] = committed]
         /\ committedStrokeCoordinates' =
              [committedStrokeCoordinates EXCEPT ![c] = coords]
         /\ strokes' = [strokes EXCEPT ![c] = RedrawAll(sorted, committed, coords)]
         /\ Emit(c, Msg("stroke:end", NoStroke, a.id, <<>>, <<>>))
  /\ isPointerDown' = [isPointerDown EXCEPT ![c] = FALSE]
  /\ activeStroke' = [activeStroke EXCEPT ![c] = NoStroke]
  /\ activeShared' = [activeShared EXCEPT ![c] = FALSE]
  /\ UNCHANGED <<logVars, replicaVars, joined, toClient, handledPinned,
                 hasJoined, shapes, countVars>>

\* The end of a stroke where the event that ended it is not recorded.
EndStroke(c) == EndStrokeOn(c, FALSE)

\* startStroke with the text or the image tool: the shape is added at once.
AddShape(c) ==
  /\ hasJoined[c]
  /\ ~isPointerDown[c]
  /\ nextId <= MaxOps
  /\ \E ts \in Times :
       /\ ts > lastStamp[c]
       /\ LET op == NewOp(nextId, c, "shape", ts, <<>>)
          IN  /\ shapes' = [shapes EXCEPT ![c] = Append(@, op)]
              /\ Emit(c, Msg("shape:add", op, op.id, <<>>, <<>>))
       /\ lastStamp' = [lastStamp EXCEPT ![c] = ts]
  /\ strokes' = [strokes EXCEPT ![c] =
                   RedrawAll(@, locallyCommittedStrokes[c],
                             committedStrokeCoordinates[c])]
  /\ nextId' = nextId + 1
  /\ UNCHANGED <<logVars, replicaVars, auxVars, joined, toClient, handledPinned, hasJoined,
                 activeStroke, isPointerDown, locallyCommittedStrokes,
                 committedStrokeCoordinates, activeShared, globalsSent, rejoins>>

\* How many undo, redo and clear requests were sent altogether.
GlobalsTotal ==
  LET Sum[S \in SUBSET Users] ==
        IF S = {} THEN 0
        ELSE LET u == CHOOSE x \in S : TRUE
             IN  globalsSent[u] + Sum[S \ {u}]
  IN  Sum[Users]

SendHistory(c, type) ==
  /\ hasJoined[c]
  /\ GlobalsTotal < MaxGlobals
  /\ globalsSent' = [globalsSent EXCEPT ![c] = @ + 1]
  /\ Emit(c, Msg(type, NoStroke, 0, <<>>, <<>>))
  /\ UNCHANGED <<logVars, replicaVars, auxVars, joined, toClient, handledPinned, hasJoined, viewVars,
                 lastStamp, nextId, rejoins>>

SendUndo(c) == SendHistory(c, "history:undo")
SendRedo(c) == SendHistory(c, "history:redo")
SendClear(c) == SendHistory(c, "history:clear")

\* ------------------------------------------------- server: the handlers
\* A join handler that leaves the tombstoned operations out of state:init.
ServerJoinActive(c) ==
  /\ Taken(c, "join")
  /\ joined' = joined \cup {c}
  /\ toClient' = [toClient EXCEPT ![c] =
                    Append(@, Msg("state:init", NoStroke, 0, <<>>,
                                  SelectSeq(ops, LAMBDA o : ~o.isDeleted)))]
  /\ UNCHANGED handledPinned
  /\ UNCHANGED <<logVars, replicaVars, auxVars, hasJoined, viewVars, countVars>>

\* socket.on('join')
ServerJoin(c) ==
  /\ Taken(c, "join")
  /\ joined' = joined \cup {c}
  /\ toClient' = [toClient EXCEPT ![c] =
                    Append(@, Msg("state:init", NoStroke, 0, <<>>, ops))]
  /\ UNCHANGED handledPinned
  /\ UNCHANGED <<logVars, replicaVars, auxVars, hasJoined, viewVars, countVars>>

\* A server that echoes the operation to everybody but its author
\* (socket.to(room) in place of io.to(room)).
ServerAppendOthers(c, type, echo) ==
  /\ Taken(c, type)
  /\ IF c \notin joined
     THEN UNCHANGED <<logVars, toClient, handledPinned>>
     ELSE \E now \in Clocks :
            /\ now >= LastStamp(State)
            /\ Install(AppendOp(State, Head(toServer[c]).op, now))
            /\ toClient' =
                 [d \in Users |->
                    IF d \in joined \ {c}
                    THEN Append(toClient[d],
                                Msg(echo, Head(toServer[c]).op,
                                    Head(toServer[c]).op.id, <<>>, <<>>))
                    ELSE toClient[d]]
            /\ UNCHANGED handledPinned
  /\ UNCHANGED <<replicaVars, auxVars, joined, hasJoined, viewVars, countVars>>

\* socket.on('stroke:start') and socket.on('shape:add'): the operation is
\* appended and the operation as received is broadcast.
ServerAppend(c, type, echo) ==
  /\ Taken(c, type)
  /\ IF c \notin joined
     THEN UNCHANGED <<logVars, toClient, handledPinned>>
     ELSE \E now \in Clocks :
            /\ now >= LastStamp(State)
            /\ Install(AppendOp(State, Head(toServer[c]).op, now))
            /\ Broadcast(Msg(echo, Head(toServer[c]).op,
                             Head(toServer[c]).op.id, <<>>, <<>>))
  /\ UNCHANGED <<replicaVars, auxVars, joined, hasJoined, viewVars, countVars>>

ServerStrokeStart(c) == ServerAppend(c, "stroke:start", "stroke:append")

ServerShapeAdd(c) == ServerAppend(c, "shape:add", "shape:append")

\* socket.on('stroke:update')
ServerStrokeUpdate(c) ==
  /\ Taken(c, "stroke:update")
  /\ LET m == Head(toServer[c])
     IN  IF c \notin joined
         THEN UNCHANGED <<logVars, toClient, handledPinned>>
         ELSE /\ Install(PatchPoints(State, m.id, m.points))
              /\ Broadcast(Msg("stroke:patch", NoStroke, m.id, m.points, <<>>))
  /\ UNCHANGED <<replicaVars, auxVars, joined, hasJoined, viewVars, countVars>>

\* socket.on('stroke:end'): nothing to do on the server
ServerStrokeEnd(c) ==
  /\ Taken(c, "stroke:end")
  /\ ended' = ended \cup {Head(toServer[c]).id}
  /\ UNCHANGED <<ops, redoStack, svLast, svPrev, svPre, svId, replicaVars, auxVars, joined,
                 toClient, handledPinned, hasJoined, viewVars, countVars>>

\* A server that sends the snapshot only when the request changed the room's
\* drawing state.
ServerHistoryQuiet(c, type, st) ==
  /\ Taken(c, type)
  /\ IF c \notin joined
     THEN UNCHANGED <<logVars, toClient, handledPinned>>
     ELSE /\ Install(st)
          /\ IF st = State
             THEN UNCHANGED <<toClient, handledPinned>>
             ELSE Broadcast(Msg("state:replace", NoStroke, 0, <<>>, st.ops))
  /\ UNCHANGED <<replicaVars, auxVars, joined, hasJoined, viewVars, countVars>>

\* socket.on('history:undo' | 'history:redo' | 'history:clear'): the log is
\* changed and the whole log is broadcast.
ServerHistory(c, type, st) ==
  /\ Taken(c, type)
  /\ IF c \notin joined
     THEN UNCHANGED <<logVars, toClient, handledPinned>>
     ELSE /\ Install(st)
          /\ Broadcast(Msg("state:replace", NoStroke, 0, <<>>, st.ops))
  /\ UNCHANGED <<replicaVars, auxVars, joined, hasJoined, viewVars, countVars>>

ServerUndo(c) == ServerHistory(c, "history:undo", GlobalUndo(State))
ServerRedo(c) == ServerHistory(c, "history:redo", GlobalRedo(State))
ServerClear(c) == ServerHistory(c, "history:clear", Clear(State))

\* ------------------------------------------------- client: the handlers
\* What a handler leaves of client c's view when it changes the strokes, the
\* shapes, the active stroke and whether the array shares the active object.
SetView(c, ss, sh, a, shared) ==
  /\ strokes' = [strokes EXCEPT ![c] = ss]
  /\ shapes' = [shapes EXCEPT ![c] = sh]
  /\ activeStroke' = [activeStroke EXCEPT ![c] = a]
  /\ activeShared' = [activeShared EXCEPT ![c] = shared]
  /\ UNCHANGED <<isPointerDown, locallyCommittedStrokes,
                 committedStrokeCoordinates>>

\* onInitialState taking the snapshot as it is: the strokes of the server
\* replace those of the view, the committed ones included.
InitialStateSnapshot(c, list) ==
  [strokes |-> StableSort(SelectSeq(list, IsStroke), ClientCompare),
   shapes |-> StableSort(SelectSeq(list, IsShape), ClientCompare)]

\* network.onInitialState
InitialStateView(c, list) ==
  LET committed == locallyCommittedStrokes[c]
      coords == committedStrokeCoordinates[c]
      serverStrokes == SelectSeq(list, IsStroke)
      committedStrokes ==
        MapSeq(SelectSeq(strokes[c], LAMBDA x : x.id \in committed),
               LAMBDA x : Restore(x, committed, coords))
      mergedStrokes ==
        SelectSeq(serverStrokes, LAMBDA x : x.id \notin committed)
          \o committedStrokes
  IN  [strokes |-> RedrawAll(StableSort(mergedStrokes, ClientCompare),
                             committed, coords),
       shapes |-> StableSort(SelectSeq(list, IsShape), ClientCompare)]

OnInitialState(c) ==
  /\ Received(c, "state:init")
  /\ LET v == InitialStateView(c, Head(toClient[c]).list)
     IN  SetView(c, v.strokes, v.shapes, activeStroke[c], FALSE)
  /\ UNCHANGED <<logVars, replicaVars, auxVars, joined, toServer, hasJoined, countVars>>

\* network.onStrokeAppended
StrokeAppendedView(c, stroke) ==
  LET ss == strokes[c]
      a == activeStroke[c]
      existing == FindIndex(ss, stroke.id)
      keep == [strokes |-> ss, redraw |-> FALSE]
  IN  IF stroke.id \in locallyCommittedStrokes[c] THEN keep
      ELSE IF a.id = stroke.id /\ isPointerDown[c] THEN keep
      ELSE IF existing > 0 /\ ss[existing].userId = c
      THEN [strokes |->
              [ss EXCEPT ![existing].color = stroke.color,
                         ![existing].timestamp =
                           IF stroke.timestamp # 0 THEN stroke.timestamp ELSE @,
                         ![existing].serverTimestamp =
                           IF stroke.serverTimestamp # 0
                           THEN stroke.serverTimestamp ELSE @],
            redraw |-> FALSE]
      ELSE IF a.id = stroke.id /\ ~isPointerDown[c] THEN keep
      ELSE IF existing = 0
      THEN [strokes |-> StableSort(Append(ss, stroke), ClientCompare),
            redraw |-> ~isPointerDown[c]]
      ELSE keep

OnStrokeAppended(c) ==
  /\ Received(c, "stroke:append")
  /\ LET v == StrokeAppendedView(c, Head(toClient[c]).op)
     IN  SetView(c,
                 IF v.redraw
                 THEN RedrawAll(v.strokes, locallyCommittedStrokes[c],
                                committedStrokeCoordinates[c])
                 ELSE v.strokes,
                 shapes[c], activeStroke[c], activeShared[c])
  /\ UNCHANGED <<logVars, replicaVars, auxVars, joined, toServer, hasJoined, countVars>>

\* onStrokePatched adding the points of the event to those of another
\* participant's stroke instead of putting them in their place.
StrokePatchedExtend(c, id, points) ==
  LET ss == strokes[c]
      a == activeStroke[c]
      i == FindIndex(ss, id)
      keep == [strokes |-> ss, active |-> a]
  IN  IF id \in locallyCommittedStrokes[c] THEN keep
      ELSE IF a.id = id /\ isPointerDown[c] THEN keep
      ELSE IF i > 0 /\ ss[i].userId = c THEN keep
      ELSE IF i = 0 THEN keep
      ELSE [strokes |-> [ss EXCEPT ![i].points = @ \o points], active |-> a]

\* onStrokePatched making up a stroke for an id the view does not hold.
StrokePatchedPlaceholder(c, id, points) ==
  LET ss == strokes[c]
      a == activeStroke[c]
      i == FindIndex(ss, id)
      keep == [strokes |-> ss, active |-> a]
  IN  IF id \in locallyCommittedStrokes[c] THEN keep
      ELSE IF a.id = id /\ isPointerDown[c] THEN keep
      ELSE IF i > 0 /\ ss[i].userId = c THEN keep
      ELSE IF i = 0
      THEN [strokes |-> Append(ss, NewOp(id, "", "stroke", 0, points)),
            active |-> a]
      ELSE [strokes |-> [ss EXCEPT ![i].points = points], active |-> a]

\* network.onStrokePatched
StrokePatchedView(c, id, points) ==
  LET ss == strokes[c]
      a == activeStroke[c]
      i == FindIndex(ss, id)
      keep == [strokes |-> ss, active |-> a]
  IN  IF id \in locallyCommittedStrokes[c] THEN keep
      ELSE IF a.id = id /\ isPointerDown[c] THEN keep
      ELSE IF i > 0 /\ ss[i].userId = c THEN keep
      ELSE IF a.id = id /\ ~isPointerDown[c]
      THEN [strokes |-> ss,
            active |-> IF Len(points) > Len(a.points)
                       THEN [a EXCEPT !.points = points] ELSE a]
      ELSE IF i = 0 THEN keep
      ELSE [strokes |-> [ss EXCEPT ![i].points = points], active |-> a]

\* The handler of stroke:patch; record tells whether an event for an id the
\* view does not hold is recorded.
OnStrokePatchedOn(c, record) ==
  /\ Received(c, "stroke:patch")
  /\ LET m == Head(toClient[c])
         v == StrokePatchedView(c, m.id, m.points)
     IN  /\ SetView(c, v.strokes, shapes[c], v.active, activeShared[c])
         /\ aux' = [aux EXCEPT !.unknownPatched =
                       IF record
                       THEN IF FindIndex(strokes[c], m.id) = 0 THEN {m.id}
                            ELSE {}
                       ELSE unknownPatched]
  /\ UNCHANGED <<logVars, replicaVars, joined, toServer, hasJoined, countVars>>

OnStrokePatched(c) == OnStrokePatchedOn(c, FALSE)

\* network.onShapeAppended
OnShapeAppended(c) ==
  /\ Received(c, "shape:append")
  /\ LET op == Head(toClient[c]).op
     IN  SetView(c,
                 IF IsShape(op)
                 THEN RedrawAll(strokes[c], locallyCommittedStrokes[c],
                                committedStrokeCoordinates[c])
                 ELSE strokes[c],
                 IF IsShape(op) THEN Append(shapes[c], op) ELSE shapes[c],
                 activeStroke[c], activeShared[c])
  /\ UNCHANGED <<logVars, replicaVars, auxVars, joined, toServer, hasJoined, countVars>>

\* onWholeStateReplaced that takes every stroke of the snapshot and adds the
\* client's own to them.
WholeStateReplacedAll(c, list) ==
  LET committed == locallyCommittedStrokes[c]
      coords == committedStrokeCoordinates[c]
      a == activeStroke[c]
      newStrokes == SelectSeq(list, IsStroke)
      ourCommittedStrokes ==
        MapSeq(SelectSeq(strokes[c], LAMBDA x :
                 x.id \in committed \/ (x.userId = c /\ x.id # a.id)),
               LAMBDA x : Restore(x, committed, coords))
      activeInState == FindIndex(newStrokes, a.id)
      keepActive == activeInState = 0 \/ isPointerDown[c] \/ a.id \in committed
      merged == IF a.id # 0 /\ keepActive
                THEN newStrokes \o ourCommittedStrokes \o <<a>>
                ELSE newStrokes \o ourCommittedStrokes
  IN  [strokes |-> RedrawAll(StableSort(merged, ClientCompare), committed, coords),
       shapes |-> StableSort(SelectSeq(list, IsShape), ClientCompare),
       active |-> IF a.id # 0 /\ ~keepActive THEN newStrokes[activeInState] ELSE a,
       shared |-> a.id # 0 /\ keepActive]

\* network.onWholeStateReplaced
WholeStateReplacedView(c, list) ==
  LET committed == locallyCommittedStrokes[c]
      coords == committedStrokeCoordinates[c]
      a == activeStroke[c]
      newStrokes == SelectSeq(list, IsStroke)
      newShapes == SelectSeq(list, IsShape)
      ourCommittedStrokes ==
        MapSeq(SelectSeq(strokes[c], LAMBDA x :
                 x.id \in committed \/ (x.userId = c /\ x.id # a.id)),
               LAMBDA x : Restore(x, committed, coords))
      others == SelectSeq(newStrokes, LAMBDA x :
                  x.id \notin committed /\ x.userId # c)
      activeInState == FindIndex(newStrokes, a.id)
      keepActive == activeInState = 0 \/ isPointerDown[c] \/ a.id \in committed
      merged == IF a.id # 0 /\ keepActive
                THEN others \o ourCommittedStrokes \o <<a>>
                ELSE others \o ourCommittedStrokes
  IN  [strokes |-> RedrawAll(StableSort(merged, ClientCompare), committed, coords),
       shapes |-> StableSort(newShapes, ClientCompare),
       active |-> IF a.id # 0 /\ ~keepActive THEN newStrokes[activeInState] ELSE a,
       shared |-> a.id # 0 /\ keepActive]

OnWholeStateReplaced(c) ==
  /\ Received(c, "state:replace")
  /\ LET v == WholeStateReplacedView(c, Head(toClient[c]).list)
     IN  SetView(c, v.strokes, v.shapes, v.active, v.shared)
  /\ UNCHANGED <<logVars, replicaVars, auxVars, joined, toServer, hasJoined, countVars>>

\* ----------------------------------------------- the other participants
\* A participant whose own view is not followed acts on the room through the
\* events its client emits: what the server does with each of them is the
\* handler above, and the broadcast reaches the clients that are followed.

\* The peer draws a stroke or adds a shape: stroke:start / shape:add.
PeerAppend(p) ==
  /\ nextId <= MaxOps
  /\ \E ty \in Types, ts \in Times, raw \in RawCoords, now \in Clocks :
       /\ ts > lastStamp[p]
       /\ now >= LastStamp(State)
       /\ LET op == NewOp(nextId, p, ty, ts,
                          IF ty = "stroke" THEN <<CanvasPoint(raw)>> ELSE <<>>)
          IN  /\ Install(AppendOp(State, op, now))
              /\ Broadcast(Msg(IF ty = "stroke" THEN "stroke:append"
                                                 ELSE "shape:append",
                               op, op.id, <<>>, <<>>))
       /\ lastStamp' = [lastStamp EXCEPT ![p] = ts]
  /\ nextId' = nextId + 1
  /\ UNCHANGED <<replicaVars, auxVars, joined, toServer, hasJoined, viewVars,
                 globalsSent, rejoins>>

\* The peer extends a stroke of its own: stroke:update.
PeerPatch(p) ==
  \E i \in 1..Len(ops), raw \in RawCoords :
    /\ ops[i].userId = p
    /\ IsStroke(ops[i])
    /\ Len(ops[i].points) < MaxPeerPts
    /\ LET pts == Append(ops[i].points, CanvasPoint(raw))
       IN  /\ Install(PatchPoints(State, ops[i].id, pts))
           /\ Broadcast(Msg("stroke:patch", NoStroke, ops[i].id, pts, <<>>))
    /\ UNCHANGED <<replicaVars, auxVars, joined, toServer, hasJoined, viewVars, countVars>>

\* The peer asks for undo, redo or clear.
PeerHistory(p, st) ==
  /\ GlobalsTotal < MaxGlobals
  /\ globalsSent' = [globalsSent EXCEPT ![p] = @ + 1]
  /\ Install(st)
  /\ Broadcast(Msg("state:replace", NoStroke, 0, <<>>, st.ops))
  /\ UNCHANGED <<replicaVars, auxVars, joined, toServer, hasJoined, viewVars,
                 lastStamp, nextId, rejoins>>

PeerUndo(p) == PeerHistory(p, GlobalUndo(State))
PeerRedo(p) == PeerHistory(p, GlobalRedo(State))
PeerClear(p) == PeerHistory(p, Clear(State))

\* ------------------------------------------------------------ the system
\* The clients whose view is followed, and the other participants.
Clients == {"u1"}
Peers == Users \ Clients

ClientNext(c) ==
  \/ Join(c)
  \/ Reconnect(c)
  \/ StartStroke(c)
  \/ MoveStroke(c)
  \/ EndStroke(c)
  \/ AddShape(c)
  \/ SendUndo(c)
  \/ SendRedo(c)
  \/ SendClear(c)
  \/ ServerJoin(c)
  \/ ServerStrokeStart(c)
  \/ ServerStrokeUpdate(c)
  \/ ServerStrokeEnd(c)
  \/ ServerShapeAdd(c)
  \/ ServerUndo(c)
  \/ ServerRedo(c)
  \/ ServerClear(c)
  \/ OnInitialState(c)
  \/ OnStrokeAppended(c)
  \/ OnStrokePatched(c)
  \/ OnShapeAppended(c)
  \/ OnWholeStateReplaced(c)

PeerNext(p) ==
  \/ PeerAppend(p)
  \/ PeerPatch(p)
  \/ PeerUndo(p)
  \/ PeerRedo(p)
  \/ PeerClear(p)

Next ==
  \/ \E c \in Clients : ClientNext(c)
  \/ \E p \in Peers : PeerNext(p)

Spec == Init /\ [][Next]_vars

\* ------------------------------------------------- the server and a socket
\* The server's stroke handlers driven by every sequence of events a socket
\* that joined the room can send: the server reads the id, the author and the
\* points from the event and checks none of them.

\* socket.on('stroke:start') for an event carrying any id
SocketStart ==
  \E id \in Ids, u \in Users, ts \in Times, raw \in RawCoords, now \in Clocks :
    /\ Len(ops) < MaxLogLen
    /\ now >= LastStamp(State)
    /\ LET op == NewOp(id, u, "stroke", ts, <<CanvasPoint(raw)>>)
       IN  /\ Install(AppendOp(State, op, now))
           /\ Broadcast(Msg("stroke:append", op, op.id, <<>>, <<>>))
    /\ UNCHANGED <<replicaVars, auxVars, joined, toServer, hasJoined, viewVars, countVars>>

\* socket.on('stroke:update') for an event carrying any id and any points
SocketUpdate ==
  \E id \in Ids, pts \in SeqsUpTo(Coords, MaxPts) :
    /\ Install(PatchPoints(State, id, pts))
    /\ Broadcast(Msg("stroke:patch", NoStroke, id, pts, <<>>))
    /\ UNCHANGED <<replicaVars, auxVars, joined, toServer, hasJoined, viewVars, countVars>>

\* socket.on('stroke:end') for an event carrying any id
SocketEnd ==
  \E id \in Ids :
    /\ ended' = ended \cup {id}
    /\ UNCHANGED <<ops, redoStack, svLast, svPrev, svPre, svId, replicaVars, auxVars,
                   clientVars>>

NextSocket == SocketStart \/ SocketUpdate \/ SocketEnd

SpecSocket == Init /\ [][NextSocket]_vars

\* The socket also sends the history requests.
SocketHistory(st) ==
  /\ Install(st)
  /\ Broadcast(Msg("state:replace", NoStroke, 0, <<>>, st.ops))
  /\ UNCHANGED <<replicaVars, auxVars, joined, toServer, hasJoined, viewVars,
                 countVars>>

\* socket.on('history:undo')
SocketUndo == SocketHistory(GlobalUndo(State))

\* socket.on('history:redo')
SocketRedo == SocketHistory(GlobalRedo(State))

\* socket.on('history:clear')
SocketClear == SocketHistory(Clear(State))

NextSocketHistory ==
  SocketStart \/ SocketUpdate \/ SocketUndo \/ SocketRedo \/ SocketClear

SpecSocketHistory == Init /\ [][NextSocketHistory]_vars

\* ------------------------------------------ one client and what it is sent
\* The canvas controller of one client driven by its pointer and by every
\* event the server can relay to it: the server checks neither the id nor the
\* author of what a socket of the room sends, so an event can name any
\* operation.  What the client emits leaves on its connection.

\* An id newOpId of this client never mints (it starts with another user id).
ForeignId == MaxOps + 1

\* The ids an event can name: those this client has minted so far and one
\* minted elsewhere.
EventIds == {i \in 1..MaxOps : i < nextId} \cup {ForeignId}

\* The user ids an operation of that id can carry: an id this client minted
\* names a stroke of this client, the other id a stroke sent under any user id.
EventAuthors(id) == IF id = ForeignId THEN Users ELSE Clients

\* The colour, width and mode of an operation drawn with another setting.
OtherColor == 2

\* The points of a stroke as it was started, and as a stroke:update left it.
StartPoints == {<<CanvasPoint(raw)>> : raw \in RawCoords}
PatchedPoints == {<<CanvasPoint(raw), CanvasPoint(raw)>> : raw \in RawCoords}

\* The strokes a stroke:append can carry: the operation as some socket sent it.
AppendedStrokes ==
  UNION {{[NewOp(id, u, "stroke", 1, pts) EXCEPT !.color = col] :
            u \in EventAuthors(id), pts \in StartPoints,
            col \in {ToolColor, OtherColor}} : id \in EventIds}

\* The strokes of a log: stamped by the server, tombstoned or not.
LoggedStrokes ==
  UNION {{[NewOp(id, u, "stroke", 1, pts) EXCEPT !.serverTimestamp = 1,
                                                !.isDeleted = del] :
            u \in EventAuthors(id), pts \in StartPoints, del \in BOOLEAN} :
         id \in EventIds}

\* The logs a state:replace can carry: at most MaxViewLog strokes of
\* different ids, in the order appendOp's sort leaves.
MaxViewLog == 2

Snapshots ==
  {l \in SeqsUpTo(LoggedStrokes, MaxViewLog) :
     \A i \in 1..Len(l) : \A j \in (i + 1)..Len(l) :
       /\ l[i].id # l[j].id
       /\ ServerCompare(l[i], l[j]) <= 0}

ServerEvents ==
  {Msg("stroke:append", s, s.id, <<>>, <<>>) : s \in AppendedStrokes}
    \cup {Msg("stroke:patch", NoStroke, id, pts, <<>>) :
            id \in EventIds, pts \in PatchedPoints}
    \cup {Msg("state:replace", NoStroke, 0, <<>>, l) : l \in Snapshots}

\* An event reaches the client, which handles one event at a time, once
\* what the client emitted has left.
EventArrives(c) ==
  /\ hasJoined[c]
  /\ toClient[c] = <<>>
  /\ toServer[c] = <<>>
  /\ \E m \in ServerEvents : toClient' = [toClient EXCEPT ![c] = <<m>>]
  /\ UNCHANGED <<logVars, replicaVars, auxVars, joined, toServer, handledPinned,
                 hasJoined, viewVars, countVars>>

\* What the client emitted leaves on its connection.
EventLeaves(c) ==
  /\ toServer[c] # <<>>
  /\ toServer' = [toServer EXCEPT ![c] = Tail(@)]
  /\ UNCHANGED <<logVars, replicaVars, auxVars, joined, toClient, handledPinned,
                 hasJoined, viewVars, countVars>>

\* pointerdown on the canvas, for the strokes this client draws here
MaxViewOps == 1

PointerDown(c) == nextId <= MaxViewOps /\ StartStroke(c)

\* The handler of stroke:patch, recording the events for unknown ids.
PatchArrives(c) == OnStrokePatchedOn(c, TRUE)

\* pointerup on the canvas: endAny, endStroke
PointerUp(c) == EndStrokeOn(c, FALSE)

\* pointerleave on the canvas: endAny, endStroke
PointerLeave(c) == EndStrokeOn(c, TRUE)

ViewNext(c) ==
  \/ Join(c)
  \/ PointerDown(c)
  \/ MoveStroke(c)
  \/ PointerUp(c)
  \/ PointerLeave(c)
  \/ EventLeaves(c)
  \/ EventArrives(c)
  \/ OnStrokeAppended(c)
  \/ PatchArrives(c)
  \/ OnWholeStateReplaced(c)

NextView == \E c \in Clients : ViewNext(c)

SpecView == Init /\ [][NextView]_vars

\* ------------------------------------------- one client and its rendering
\* The canvas controller of one client with its needsRedraw flag and its
\* offscreen canvas, driven by its pointer, by the events about another
\* participant's stroke and by the animation frames.

\* What redrawAll draws from the strokes ss and the shapes sh: every
\* operation but the tombstoned strokes, in the order of its sort.
DrawnOps(ss, sh) ==
  LET sorted == StableSort(ss \o sh, ClientCompare)
      shown == SelectSeq(sorted, LAMBDA s : ~(IsStroke(s) /\ s.isDeleted))
  IN  [i \in 1..Len(shown) |-> [id |-> shown[i].id, points |-> shown[i].points]]

\* redrawAll on the arrays ss and sh: the offscreen canvas is drawn anew and
\* the flag is cleared.
Redraw(c, ss, sh) ==
  aux' = [aux EXCEPT !.offscreen[c] = DrawnOps(ss, sh),
                     !.needsRedraw[c] = FALSE]

\* needsRedraw = true
FlagRedraw(c) == aux' = [aux EXCEPT !.needsRedraw[c] = TRUE]

\* What the rendering leaves alone.
renderRest == <<logVars, replicaVars, joined, hasJoined, globalsSent, rejoins>>

\* The events about the stroke of another participant.
RenderEvents ==
  {Msg("stroke:append", NewOp(ForeignId, u, "stroke", 1, pts), ForeignId,
       <<>>, <<>>) : u \in Peers, pts \in StartPoints}
    \cup {Msg("stroke:patch", NoStroke, ForeignId, pts, <<>>) :
            pts \in PatchedPoints}
    \cup {Msg("state:replace", NoStroke, 0, <<>>, l) :
            l \in {s \in Snapshots :
                     \A i \in 1..Len(s) :
                       s[i].id = ForeignId /\ s[i].userId \in Peers}}

RenderArrives(c) ==
  /\ hasJoined[c]
  /\ toClient[c] = <<>>
  /\ toServer[c] = <<>>
  /\ \E m \in RenderEvents : toClient' = [toClient EXCEPT ![c] = <<m>>]
  /\ UNCHANGED <<logVars, replicaVars, auxVars, joined, toServer, handledPinned,
                 hasJoined, viewVars, countVars>>

\* startStroke with the brush: the flag is set and the stroke begun.
RenderPointerDown(c) ==
  /\ hasJoined[c]
  /\ ~isPointerDown[c]
  /\ activeStroke[c].id = 0
  /\ nextId <= MaxViewOps
  /\ \E ts \in Times, raw \in RawCoords :
       /\ ts > lastStamp[c]
       /\ LET op == NewOp(nextId, c, "stroke", ts, <<CanvasPoint(raw)>>)
          IN  /\ activeStroke' = [activeStroke EXCEPT ![c] = op]
              /\ Emit(c, Msg("stroke:start", op, op.id, <<>>, <<>>))
       /\ lastStamp' = [lastStamp EXCEPT ![c] = ts]
  /\ isPointerDown' = [isPointerDown EXCEPT ![c] = TRUE]
  /\ nextId' = nextId + 1
  /\ FlagRedraw(c)
  /\ UNCHANGED <<renderRest, toClient, handledPinned, strokes, shapes,
                 locallyCommittedStrokes, committedStrokeCoordinates,
                 activeShared>>

\* The points of a stroke followed with its rendering.
MaxRenderPts == 2

\* moveStroke
RenderMove(c) ==
  /\ isPointerDown[c]
  /\ activeStroke[c].id # 0
  /\ Len(activeStroke[c].points) < MaxRenderPts
  /\ \E raw \in RawCoords, send \in BOOLEAN :
       LET pts == Append(activeStroke[c].points, CanvasPoint(raw))
       IN  /\ activeStroke' = [activeStroke EXCEPT ![c].points = pts]
           /\ strokes' =
                [strokes EXCEPT ![c] =
                   IF activeShared[c]
                   THEN [i \in 1..Len(@) |->
                           IF @[i].id = activeStroke[c].id
                           THEN [@[i] EXCEPT !.points = pts] ELSE @[i]]
                   ELSE @]
           /\ IF send
              THEN Emit(c, Msg("stroke:update", NoStroke, activeStroke[c].id,
                               pts, <<>>))
              ELSE UNCHANGED toServer
  /\ FlagRedraw(c)
  /\ UNCHANGED <<renderRest, toClient, handledPinned, shapes, isPointerDown,
                 locallyCommittedStrokes, committedStrokeCoordinates,
                 activeShared, lastStamp, nextId>>

\* endStroke: the stroke is committed, redrawAll draws the arrays, and the
\* flag is set again.
RenderPointerUp(c) ==
  /\ activeStroke[c].id # 0
  /\ LET a == activeStroke[c]
         lockedPointsRounded == [i \in 1..Len(a.points) |-> Round4(a.points[i])]
         committed == locallyCommittedStrokes[c] \cup {a.id}
         coords == (a.id :> lockedPointsRounded) @@ committedStrokeCoordinates[c]
         strokeToCommit == [a EXCEPT !.points = lockedPointsRounded,
                                     !.isDeleted = FALSE]
         existingIndex == FindIndex(strokes[c], a.id)
         placed == IF existingIndex > 0
                   THEN [strokes[c] EXCEPT ![existingIndex] = strokeToCommit]
                   ELSE Append(strokes[c], strokeToCommit)
         restored == MapSeq(placed, LAMBDA s :
                       IF s.id = a.id THEN Restore(s, committed, coords) ELSE s)
         drawn == RedrawAll(StableSort(restored, ClientCompare), committed,
                            coords)
     IN  /\ locallyCommittedStrokes' =
              [locallyCommittedStrokes EXCEPT ![c] = committed]
         /\ committedStrokeCoordinates' =
              [committedStrokeCoordinates EXCEPT ![c] = coords]
         /\ strokes' = [strokes EXCEPT ![c] = drawn]
         /\ aux' = [aux EXCEPT !.offscreen[c] = DrawnOps(drawn, shapes[c]),
                               !.needsRedraw[c] = TRUE]
         /\ Emit(c, Msg("stroke:end", NoStroke, a.id, <<>>, <<>>))
  /\ isPointerDown' = [isPointerDown EXCEPT ![c] = FALSE]
  /\ activeStroke' = [activeStroke EXCEPT ![c] = NoStroke]
  /\ activeShared' = [activeShared EXCEPT ![c] = FALSE]
  /\ UNCHANGED <<renderRest, toClient, handledPinned, shapes, lastStamp, nextId>>

\* network.onStrokeAppended: a stroke that is pushed is drawn at once when
\* the pointer is up, and flagged when it is down.
RenderAppended(c) ==
  /\ Received(c, "stroke:append")
  /\ LET v == StrokeAppendedView(c, Head(toClient[c]).op)
         pushed == Len(v.strokes) > Len(strokes[c])
         ss == IF v.redraw
               THEN RedrawAll(v.strokes, locallyCommittedStrokes[c],
                              committedStrokeCoordinates[c])
               ELSE v.strokes
     IN  /\ SetView(c, ss, shapes[c], activeStroke[c], activeShared[c])
         /\ IF v.redraw THEN Redraw(c, ss, shapes[c])
            ELSE IF pushed THEN FlagRedraw(c)
            ELSE UNCHANGED aux
  /\ UNCHANGED <<renderRest, toServer, lastStamp, nextId>>

\* network.onStrokePatched: the flag is set for the active stroke of a pointer
\* that is up, and for another stroke whose number of points changed while
\* the pointer is up.
RenderPatched(c) ==
  /\ Received(c, "stroke:patch")
  /\ LET m == Head(toClient[c])
         v == StrokePatchedView(c, m.id, m.points)
         a == activeStroke[c]
         i == FindIndex(strokes[c], m.id)
         blocked == \/ m.id \in locallyCommittedStrokes[c]
                    \/ a.id = m.id /\ isPointerDown[c]
                    \/ i > 0 /\ strokes[c][i].userId = c
         flagged == /\ ~blocked
                    /\ \/ a.id = m.id /\ ~isPointerDown[c]
                       \/ /\ a.id # m.id
                          /\ i > 0
                          /\ Len(m.points) # Len(strokes[c][i].points)
                          /\ ~isPointerDown[c]
     IN  /\ SetView(c, v.strokes, shapes[c], v.active, activeShared[c])
         /\ IF flagged THEN FlagRedraw(c)
            ELSE UNCHANGED aux
  /\ UNCHANGED <<renderRest, toServer, lastStamp, nextId>>

\* network.onWholeStateReplaced, which ends with redrawAll
RenderReplaced(c) ==
  /\ Received(c, "state:replace")
  /\ LET v == WholeStateReplacedView(c, Head(toClient[c]).list)
     IN  /\ SetView(c, v.strokes, v.shapes, v.active, v.shared)
         /\ Redraw(c, v.strokes, v.shapes)
  /\ UNCHANGED <<renderRest, toServer, lastStamp, nextId>>

\* render, on an animation frame: redrawAll when the flag is set and no
\* stroke is being drawn, else the offscreen canvas is shown as it is; the
\* flag is cleared either way.
RenderFrame(c) ==
  LET isActivelyDrawing == activeStroke[c].id # 0 /\ isPointerDown[c]
      ss == RedrawAll(strokes[c], locallyCommittedStrokes[c],
                      committedStrokeCoordinates[c])
  IN  /\ IF needsRedraw[c] /\ ~isActivelyDrawing
         THEN /\ strokes' = [strokes EXCEPT ![c] = ss]
              /\ aux' = [aux EXCEPT !.offscreen[c] = DrawnOps(ss, shapes[c]),
                                    !.needsRedraw[c] = FALSE]
         ELSE /\ UNCHANGED strokes
              /\ aux' = [aux EXCEPT !.needsRedraw[c] = FALSE]
      /\ UNCHANGED <<renderRest, toServer, toClient, handledPinned, shapes,
                     activeStroke, isPointerDown, activeShared,
                     locallyCommittedStrokes, committedStrokeCoordinates,
                     lastStamp, nextId>>

RenderNext(c) ==
  \/ Join(c)
  \/ EventLeaves(c)
  \/ RenderArrives(c)
  \/ RenderPointerDown(c)
  \/ RenderMove(c)
  \/ RenderPointerUp(c)
  \/ RenderAppended(c)
  \/ RenderPatched(c)
  \/ RenderReplaced(c)
  \/ RenderFrame(c)

NextRender == \E c \in Clients : RenderNext(c)

SpecRender == Init /\ [][NextRender]_vars

\* ------------------------------------------- the room saved and loaded
\* The drawing state of one room with the persistence API: the log is
\* changed by the operations, written to the room's file and read back.

\* The drawing state st becomes the room's; name is the request handled.
Persist(st, name) ==
  /\ ops' = st.ops
  /\ redoStack' = st.redoStack
  /\ svLast' = name
  /\ UNCHANGED <<svPrev, svPre, svId, ended, replicaVars, clientVars>>

\* One author draws in the room that is saved.
PersistAppend ==
  \E id \in Ids, u \in Clients, ts \in Times, now \in Clocks, p \in Coords :
    /\ \A i \in 1..Len(ops) : ops[i].id # id
    /\ now >= LastStamp(State)
    /\ Persist(AppendOp(State, NewOp(id, u, "stroke", ts, <<p>>), now), "append")
    /\ UNCHANGED auxVars

PersistPatch ==
  \E id \in Ids, pts \in PatchedPoints :
    /\ Persist(PatchPoints(State, id, pts), "patch")
    /\ UNCHANGED auxVars

PersistUndo == Persist(GlobalUndo(State), "undo") /\ UNCHANGED auxVars

PersistRedo == Persist(GlobalRedo(State), "redo") /\ UNCHANGED auxVars

PersistClear == Persist(Clear(State), "clear") /\ UNCHANGED auxVars

\* The times the room is saved in one behaviour.
MaxSaves == 1

\* POST /api/rooms/:room/save: JSON.stringify({ ops }) is written to the file.
Save ==
  /\ ~roomFile.exists \/ MaxSaves > 1
  /\ aux' = [aux EXCEPT !.roomFile = [exists |-> TRUE, ops |-> ops]]
  /\ svLast' = "save"
  /\ UNCHANGED <<ops, redoStack, svPrev, svPre, svId, ended, replicaVars,
                 clientVars>>

\* The loop of the load handler: appendOp for every operation of the file.
RECURSIVE AppendAll(_, _, _)
AppendAll(st, list, now) ==
  IF list = <<>> THEN st
  ELSE AppendAll(AppendOp(st, Head(list), now), Tail(list), now)

\* POST /api/rooms/:room/load: the state is cleared and the operations of the
\* file are appended one by one, within one millisecond of the server clock.
Load ==
  /\ roomFile.exists
  /\ \E now \in Clocks :
       /\ now >= LastStamp(State)
       /\ Persist(AppendAll(Clear(State), roomFile.ops, now), "load")
  /\ UNCHANGED auxVars

NextPersist ==
  \/ PersistAppend
  \/ PersistPatch
  \/ PersistUndo
  \/ PersistRedo
  \/ PersistClear
  \/ Save
  \/ Load

SpecPersist == Init /\ [][NextPersist]_vars

\* --------------------------------------------- the client's socket joins
\* createSocketClient: the socket is created unconnected, with a handler of
\* every connect and a handler of the first connect, each of which sets a
\* timer of 100 ms that calls joinRoom.  The timers have the same delay and
\* fire in the order they were set.

\* joinRoom without the flag: join is emitted whenever the socket is
\* connected.
JoinRoomUnflagged(l, joinedBefore) ==
  IF l.connected
  THEN [link |-> [l EXCEPT !.joins[l.conn] = @ + 1], hasJoined |-> joinedBefore]
  ELSE [link |-> l, hasJoined |-> joinedBefore]

\* joinRoom(): the socket and the flag after the call.
JoinRoom(l, joinedBefore) ==
  IF l.connected /\ ~joinedBefore
  THEN [link |-> [l EXCEPT !.joins[l.conn] = @ + 1], hasJoined |-> TRUE]
  ELSE [link |-> l, hasJoined |-> joinedBefore]

linkRest == <<logVars, replicaVars, joined, toServer, toClient, handledPinned,
              viewVars, countVars>>

\* socket.on('connect') and, the first time, socket.once('connect')
OnConnect(c) ==
  /\ ~link.connected
  /\ link.conn < MaxConnects
  /\ aux' = [aux EXCEPT
               !.link.connected = TRUE,
               !.link.conn = @ + 1,
               !.link.once = FALSE,
               !.link.timers = IF link.once
                               THEN @ \o <<link.conn + 1, link.conn + 1>>
                               ELSE Append(@, link.conn + 1)]
  /\ hasJoined' = [hasJoined EXCEPT ![c] = FALSE]
  /\ UNCHANGED linkRest

\* socket.on('disconnect')
OnDisconnect(c) ==
  /\ link.connected
  /\ aux' = [aux EXCEPT !.link.connected = FALSE]
  /\ hasJoined' = [hasJoined EXCEPT ![c] = FALSE]
  /\ UNCHANGED linkRest

\* socket.on('connect_error'): an attempt to connect failed
OnConnectError(c) ==
  /\ ~link.connected
  /\ hasJoined' = [hasJoined EXCEPT ![c] = FALSE]
  /\ UNCHANGED <<aux, linkRest>>

\* setTimeout(() => { joinRoom(); }, 100): the timer set first fires
JoinTimer(c) ==
  /\ link.timers # <<>>
  /\ LET after == JoinRoom([link EXCEPT !.timers = Tail(@)], hasJoined[c])
     IN  /\ aux' = [aux EXCEPT !.link = after.link]
         /\ hasJoined' = [hasJoined EXCEPT ![c] = after.hasJoined]
  /\ UNCHANGED linkRest

LinkNext(c) ==
  \/ OnConnect(c)
  \/ OnDisconnect(c)
  \/ OnConnectError(c)
  \/ JoinTimer(c)

NextLink == \E c \in Clients : LinkNext(c)

\* A timer that was set fires.
SpecLink ==
  Init /\ [][NextLink]_vars /\ WF_vars(\E c \in Clients : JoinTimer(c))

\* ------------------------------------- the log fed malformed operations
\* The drawing state fed stroke:start events whose operation may lack its
\* userId or its timestamp, besides the history requests.

\* op.userId is undefined.
NoUser == ""

Senders == Users \cup {NoUser}

\* appendOp up to its sort: the stamped operation is pushed and the redo
\* stack emptied.
PushOp(st, op, now) ==
  [ops |-> Append(st.ops,
                  [op EXCEPT !.isDeleted = FALSE,
                             !.serverTimestamp = now,
                             !.timestamp = IF op.timestamp # 0
                                           THEN op.timestamp ELSE now]),
   redoStack |-> <<>>]

\* The comparator reaches a.userId.localeCompare(b.userId) for a and b.
Tied(a, b) ==
  a.timestamp = b.timestamp /\ a.serverTimestamp = b.serverTimestamp

\* Some call the sort may make throws: a.userId is undefined.  Which pairs
\* the sort compares, and in which order, is up to the engine.
CanThrow(s) ==
  \E i, j \in 1..Len(s) : i # j /\ Tied(s[i], s[j]) /\ s[i].userId = NoUser

\* Every sort throws: two tied operations without userId end next to each
\* other, so they are compared.
SurelyThrows(s) ==
  \E i, j \in 1..Len(s) :
    i # j /\ Tied(s[i], s[j]) /\ s[i].userId = NoUser /\ s[j].userId = NoUser

\* The stroke:start handler when appendOp returns.
AppendHandled ==
  \E id \in Ids, u \in Senders, ts \in {0} \cup Times, now \in Clocks,
     p \in Coords :
    LET op == NewOp(id, u, "stroke", ts, <<p>>)
    IN  /\ \A i \in 1..Len(ops) : ops[i].id # id
        /\ now >= LastStamp(State)
        /\ ~SurelyThrows(PushOp(State, op, now).ops)
        /\ Apply(AppendOp(State, op, now), "append")

\* The stroke:start handler when the comparator throws inside the sort: the
\* catch logs the error; the array is as the push left it (the sort works on
\* a copy) and nothing is emitted.
AppendFails ==
  \E id \in Ids, u \in Senders, ts \in {0} \cup Times, now \in Clocks,
     p \in Coords :
    LET op == NewOp(id, u, "stroke", ts, <<p>>)
    IN  /\ \A i \in 1..Len(ops) : ops[i].id # id
        /\ now >= LastStamp(State)
        /\ CanThrow(PushOp(State, op, now).ops)
        /\ Apply(PushOp(State, op, now), "append:failed")

NextMalformed == AppendHandled \/ AppendFails \/ LogUndo \/ LogRedo \/ LogClear

SpecMalformed == Init /\ [][NextMalformed]_vars

\* ------------------------------------------------- the server's rooms
\* The server with the rooms createRooms keeps, driven by the events of its
\* connections: a connection joins a room by name, sends the events of the
\* drawing, and drops.  What the server emits to a connection waits in
\* toClient until the connection takes it.

\* The room names a join can carry; the empty name stands for a join without
\* one.
RoomNames == {"", "lobby", "studio"}

\* joinedRoom = room || 'lobby'
RoomOf(room) == IF room = "" THEN "lobby" ELSE room

\* ensure(name): the Map after rooms.get(name), which creates the room the
\* first time the name is used.
Ensure(name) ==
  IF name \in DOMAIN rooms THEN rooms
  ELSE (name :> [state |-> EmptyState, users |-> {}]) @@ rooms

\* The Map when the room of that name has its drawing state shared by every
\* room (one createDrawingState for the whole server).
RoomsInstallShared(name, st) ==
  [r \in DOMAIN Ensure(name) |-> [Ensure(name)[r] EXCEPT !.state = st]]

\* The Map when the drawing state of the room of that name becomes st.
RoomsInstall(name, st) == [Ensure(name) EXCEPT ![name].state = st]

\* io.to(name).emit: the event goes to every connection socket.join put in
\* the room.
RoomBroadcast(name, m) ==
  toClient' = [s \in Users |->
                 IF name \in sockets[s].member THEN Append(toClient[s], m)
                 ELSE toClient[s]]

\* No event emitted by the server waits: a connection sends its next event
\* when the connections have taken what was emitted to them.
RoomsQuiet == \A s \in Users : toClient[s] = <<>>

\* The variables the rooms leave alone.
roomFrame == <<logVars, replicaVars, joined, toServer, handledPinned,
               hasJoined, viewVars, lastStamp, globalsSent, rejoins>>

\* The record of an event of that type handled for socket s in that room.
Served(s, name, type) == [socket |-> s, room |-> name, type |-> type]

\* io.on('connection')
RoomsConnect(s) ==
  /\ ~sockets[s].connected
  /\ aux' = [aux EXCEPT
               !.sockets[s] =
                 [connected |-> TRUE, joinedRoom |-> "", member |-> {}],
               !.served = Served(s, "", "connection")]
  /\ UNCHANGED <<toClient, nextId, roomFrame>>

\* socket.on('join') with one of these room names
RoomsJoinIn(s, names) ==
  \E room \in names :
    LET name == RoomOf(room)
        r == Ensure(name)
    IN  /\ sockets[s].connected
        /\ RoomsQuiet
        /\ aux' = [aux EXCEPT
                     !.sockets[s].joinedRoom = name,
                     !.sockets[s].member = @ \cup {name},
                     !.rooms = [r EXCEPT ![name].users = @ \cup {s}],
                     !.served = Served(s, name, "join")]
        /\ toClient' = [toClient EXCEPT ![s] =
                          Append(@, Msg("state:init", NoStroke, 0, <<>>,
                                        r[name].state.ops))]
        /\ UNCHANGED <<nextId, roomFrame>>

\* socket.on('join')
RoomsJoin(s) == RoomsJoinIn(s, RoomNames)

\* A room that is dropped from the Map when its last user leaves.
RoomsDisconnectCleanup(s) ==
  LET name == sockets[s].joinedRoom
      left == [rooms EXCEPT ![name].users = @ \ {s}]
  IN  /\ sockets[s].connected
      /\ aux' = [aux EXCEPT
                   !.rooms = IF name = "" THEN rooms
                             ELSE IF left[name].users = {}
                             THEN [r \in DOMAIN rooms \ {name} |-> rooms[r]]
                             ELSE left,
                   !.sockets[s] =
                     [connected |-> FALSE, joinedRoom |-> "", member |-> {}],
                   !.served = Served(s, name, "disconnect")]
      /\ toClient' = [toClient EXCEPT ![s] = <<>>]
      /\ UNCHANGED <<nextId, roomFrame>>

\* socket.on('disconnect'): the user leaves the room the socket joined last;
\* what was emitted to the socket and not taken is lost with it.
RoomsDisconnect(s) ==
  LET name == sockets[s].joinedRoom
  IN  /\ sockets[s].connected
      /\ aux' = [aux EXCEPT
                   !.rooms = IF name = "" THEN rooms
                             ELSE [Ensure(name) EXCEPT ![name].users = @ \ {s}],
                   !.sockets[s] =
                     [connected |-> FALSE, joinedRoom |-> "", member |-> {}],
                   !.served = Served(s, name, "disconnect")]
      /\ toClient' = [toClient EXCEPT ![s] = <<>>]
      /\ UNCHANGED <<nextId, roomFrame>>

\* A handler that serves a socket that joined no room in room 'lobby'.
RoomsHandleLobby(s, type, st, m) ==
  LET name == RoomOf(sockets[s].joinedRoom)
  IN  /\ sockets[s].connected
      /\ RoomsQuiet
      /\ aux' = [aux EXCEPT
                   !.rooms = RoomsInstall(name, st),
                   !.served = Served(s, sockets[s].joinedRoom, type)]
      /\ RoomBroadcast(name, m)
      /\ UNCHANGED roomFrame

\* A handler of a drawing event of socket s: nothing when the socket joined
\* no room, else the room's drawing state becomes st(room state) and the
\* event m is emitted to the room.
RoomsHandle(s, type, st, m) ==
  LET name == sockets[s].joinedRoom
  IN  /\ sockets[s].connected
      /\ RoomsQuiet
      /\ IF name = ""
         THEN /\ aux' = [aux EXCEPT !.served = Served(s, name, type)]
              /\ UNCHANGED toClient
         ELSE /\ aux' = [aux EXCEPT !.rooms = RoomsInstall(name, st),
                                    !.served = Served(s, name, type)]
              /\ RoomBroadcast(name, m)
      /\ UNCHANGED roomFrame

\* The drawing state of the room socket s joined last.
RoomState(s) ==
  IF sockets[s].joinedRoom = "" THEN EmptyState
  ELSE Ensure(sockets[s].joinedRoom)[sockets[s].joinedRoom].state

\* The operations created in one behaviour of the rooms.
MaxRoomOps == 2

\* Date.now() on the server while the rooms are followed: the events are
\* handled within one millisecond.
RoomsClocks == {1}

\* socket.on('stroke:start')
RoomsStrokeStart(s) ==
  \E now \in RoomsClocks, raw \in RawCoords :
    LET op == NewOp(nextId, s, "stroke", 1, <<CanvasPoint(raw)>>)
    IN  /\ nextId <= MaxRoomOps
        /\ now >= LastStamp(RoomState(s))
        /\ nextId' = nextId + 1
        /\ RoomsHandle(s, "stroke:start", AppendOp(RoomState(s), op, now),
                       Msg("stroke:append", op, op.id, <<>>, <<>>))

\* socket.on('stroke:update')
RoomsStrokeUpdate(s) ==
  \E id \in Ids, pts \in PatchedPoints :
    /\ id < nextId
    /\ UNCHANGED nextId
    /\ RoomsHandle(s, "stroke:update", PatchPoints(RoomState(s), id, pts),
                   Msg("stroke:patch", NoStroke, id, pts, <<>>))

\* socket.on('shape:add')
RoomsShapeAdd(s) ==
  \E now \in RoomsClocks :
    LET op == NewOp(nextId, s, "shape", 1, <<>>)
    IN  /\ nextId <= MaxRoomOps
        /\ now >= LastStamp(RoomState(s))
        /\ nextId' = nextId + 1
        /\ RoomsHandle(s, "shape:add", AppendOp(RoomState(s), op, now),
                       Msg("shape:append", op, op.id, <<>>, <<>>))

\* socket.on('cursor'): the position is relayed, the drawing state is left
\* alone.
RoomsCursor(s) ==
  /\ UNCHANGED nextId
  /\ RoomsHandle(s, "cursor", RoomState(s),
                 Msg("cursor", NoStroke, 0, <<>>, <<>>))

\* socket.on('history:undo')
RoomsUndo(s) ==
  /\ UNCHANGED nextId
  /\ RoomsHandle(s, "history:undo", GlobalUndo(RoomState(s)),
                 Msg("state:replace", NoStroke, 0, <<>>,
                     GlobalUndo(RoomState(s)).ops))

\* socket.on('history:redo')
RoomsRedo(s) ==
  /\ UNCHANGED nextId
  /\ RoomsHandle(s, "history:redo", GlobalRedo(RoomState(s)),
                 Msg("state:replace", NoStroke, 0, <<>>,
                     GlobalRedo(RoomState(s)).ops))

\* socket.on('history:clear')
RoomsClear(s) ==
  /\ UNCHANGED nextId
  /\ RoomsHandle(s, "history:clear", Clear(RoomState(s)),
                 Msg("state:replace", NoStroke, 0, <<>>, <<>>))

\* The connection takes the next event emitted to it.
RoomsTake(s) ==
  /\ toClient[s] # <<>>
  /\ toClient' = [toClient EXCEPT ![s] = Tail(@)]
  /\ UNCHANGED <<aux, nextId, roomFrame>>

RoomsNext(s) ==
  \/ RoomsConnect(s)
  \/ RoomsJoin(s)
  \/ RoomsDisconnect(s)
  \/ RoomsStrokeStart(s)
  \/ RoomsStrokeUpdate(s)
  \/ RoomsUndo(s)
  \/ RoomsRedo(s)
  \/ RoomsClear(s)
  \/ RoomsTake(s)

NextRooms == \E s \in Users : RoomsNext(s)

SpecRooms == Init /\ [][NextRooms]_vars

\* The server with one room and every event a connection sends to it: the
\* joins name no room or 'lobby'.
RoomEventsNext(s) ==
  \/ RoomsConnect(s)
  \/ RoomsJoinIn(s, {"", "lobby"})
  \/ RoomsDisconnect(s)
  \/ RoomsStrokeStart(s)
  \/ RoomsStrokeUpdate(s)
  \/ RoomsShapeAdd(s)
  \/ RoomsCursor(s)
  \/ RoomsUndo(s)
  \/ RoomsRedo(s)
  \/ RoomsClear(s)
  \/ RoomsTake(s)

NextRoomEvents == \E s \in Users : RoomEventsNext(s)

SpecRoomEvents == Init /\ [][NextRoomEvents]_vars

\* ------------------------------------------------------------- properties
\* Lexicographic order of user ids.
UserLeq(u, v) == u = v \/ (u = "u1" /\ v = "u2")

\* a is not after b in the order (timestamp, serverTimestamp, userId).
KeyLeq(a, b) ==
  \/ a.timestamp < b.timestamp
  \/ /\ a.timestamp = b.timestamp
     /\ \/ a.serverTimestamp < b.serverTimestamp
        \/ /\ a.serverTimestamp = b.serverTimestamp
           /\ UserLeq(a.userId, b.userId)

HasActive(s) == \E i \in 1..Len(s) : ~s[i].isDeleted

Flags(s) == [i \in 1..Len(s) |-> s[i].isDeleted]

C4_AppendInvalidatesRedo ==
  (svPrev = "undo" /\ svLast = "append")
    => /\ redoStack = <<>>
       /\ Flags(GlobalRedo(State).ops) = Flags(ops)

\* The undo had pushed an id, and the append that followed found it there.
C4_Witness ==
  /\ svPrev = "undo" /\ svLast = "append"
  /\ svPre.redoStack # <<>>
  /\ \E i \in 1..Len(ops) : ops[i].isDeleted

IdOrder(s) == [i \in 1..Len(s) |-> s[i].id]

BothComplete == Len(arrivedA) = MaxOps /\ Len(arrivedB) = MaxOps

DistinctTimestamps ==
  \A i, j \in Ids : i # j => opSet[i].timestamp # opSet[j].timestamp

\* C5 as stated: the same operations reaching two independent logs in
\* different arrival orders are listed in the same order by both.
C5_SameOrderAnyArrival ==
  BothComplete => IdOrder(replicaA.ops) = IdOrder(replicaB.ops)

\* C5 amended: the same operations, no two of them with the same author
\* timestamp, reaching two independent logs in different arrival orders are
\* listed in the same order by both.
C5_SameOrderDistinctTimestamps ==
  (BothComplete /\ DistinctTimestamps)
    => IdOrder(replicaA.ops) = IdOrder(replicaB.ops)

\* Both logs hold every operation, no two timestamps are equal and the
\* operations arrived in different orders.
C5_Witness ==
  /\ BothComplete
  /\ DistinctTimestamps
  /\ arrivedA # arrivedB
  /\ IdOrder(replicaA.ops) # arrivedA

\* C7: the log is always in ascending order of
\* (timestamp, serverTimestamp, userId).
C7_LogSorted ==
  \A i, j \in 1..Len(ops) : i < j => KeyLeq(ops[i], ops[j])

\* An append placed an operation in front of one received earlier, and two
\* operations with equal timestamp and serverTimestamp are in the log.
C7_Witness ==
  /\ svLast = "append"
  /\ Len(svPre.ops) >= 1
  /\ ops[1].id \notin {svPre.ops[i].id : i \in 1..Len(svPre.ops)}
  /\ \E i, j \in 1..Len(ops) :
       /\ i < j
       /\ ops[i].timestamp = ops[j].timestamp
       /\ ops[i].serverTimestamp = ops[j].serverTimestamp
       /\ ops[i].userId # ops[j].userId

\* What globalUndo must have done to pre to give post.
UndoPost(pre, post) ==
  IF HasActive(pre.ops)
  THEN \E i \in 1..Len(pre.ops) :
         /\ ~pre.ops[i].isDeleted
         /\ \A j \in 1..Len(pre.ops) :
              (j # i /\ ~pre.ops[j].isDeleted)
                => (j < i /\ KeyLeq(pre.ops[j], pre.ops[i]))
         /\ post.ops = [pre.ops EXCEPT ![i].isDeleted = TRUE]
         /\ post.redoStack = Append(pre.redoStack, pre.ops[i].id)
  ELSE post = pre

\* C8: globalUndo tombstones exactly the last non-tombstoned operation of
\* the total order and pushes its id; with no such operation it changes
\* nothing.
C8_UndoLastActive == svLast = "undo" => UndoPost(svPre, State)

\* An undo acted on a log whose last operation was already tombstoned and
\* that still had an active one.
C8_Witness ==
  /\ svLast = "undo"
  /\ Len(svPre.ops) >= 2
  /\ svPre.ops[Len(svPre.ops)].isDeleted
  /\ HasActive(svPre.ops)

\* What globalRedo must have done to pre to give post.
RedoPost(pre, post) ==
  IF pre.redoStack = <<>> THEN post = pre
  ELSE LET n == Len(pre.redoStack)
           id == pre.redoStack[n]
           hit == {i \in 1..Len(pre.ops) :
                     pre.ops[i].id = id /\ pre.ops[i].isDeleted}
       IN  /\ post.redoStack = SubSeq(pre.redoStack, 1, n - 1)
           /\ IF hit # {}
              THEN \E i \in hit : post.ops = [pre.ops EXCEPT ![i].isDeleted = FALSE]
              ELSE post.ops = pre.ops

C10_ClearDiscards ==
  /\ svLast = "clear"
       => ops = <<>> /\ redoStack = <<>> /\ GlobalRedo(State) = State
  /\ (svPrev = "clear" /\ svLast = "redo") => State = svPre

\* A clear acted on a log and a redo stack that were not empty.
C10_Witness ==
  /\ svLast = "clear"
  /\ svPre.ops # <<>>
  /\ svPre.redoStack # <<>>

\* --------------------------------------------- properties of the client view
\* Every event sent has been handled, client c is in the room and draws nothing.
Quiescent(c) ==
  /\ c \in joined
  /\ hasJoined[c]
  /\ InFlight = 0
  /\ activeStroke[c].id = 0
  /\ ~isPointerDown[c]

\* The operations of client c's view, strokes and shapes.
View(c) == strokes[c] \o shapes[c]

VisibleIds(list) == {list[i].id : i \in {j \in 1..Len(list) : ~list[j].isDeleted}}

AllIds(list) == {list[i].id : i \in 1..Len(list)}

\* C1: once every sent message is delivered and no participant has a stroke
\* in progress, the ids of the operations a participant shows are the ids of
\* the operations the server log holds without a tombstone.
C1_ViewsConverge ==
  \A c \in Clients :
    Quiescent(c) => VisibleIds(View(c)) = VisibleIds(ops)

\* What client c holds and renders for the stroke id: whether its strokes hold
\* it, the points of that entry, and the points drawStroke draws for it.
CommittedPoints(c, id) ==
  LET i == FindIndex(strokes[c], id)
  IN  IF i = 0
      THEN [present |-> FALSE, held |-> <<>>, rendered |-> <<>>]
      ELSE [present |-> TRUE,
            held |-> strokes[c][i].points,
            rendered |-> PointsToRender(c, strokes[c][i])]

\* C2: once endStroke has committed a stroke on its author's client, no step,
\* and so no stroke:append, stroke:patch, state:init or state:replace naming
\* it, changes the points the client holds and renders for it, and the client
\* goes on holding it.
C2_CommittedPointsFixed ==
  [][\A c \in Clients :
       \A id \in locallyCommittedStrokes[c] :
         /\ CommittedPoints(c, id).present
         /\ CommittedPoints(c, id)' = CommittedPoints(c, id)]_vars

\* A client that committed a stroke of two points has since handled each of
\* the four kinds of event naming it, while the copy in the server log has
\* other points or a tombstone.
C2_Witness ==
  \E c \in Clients :
    /\ handledPinned[c] =
         {"stroke:append", "stroke:patch", "state:init", "state:replace"}
    /\ \E id \in locallyCommittedStrokes[c] :
         /\ Len(CommittedPoints(c, id).held) = MaxPts
         /\ \E i \in 1..Len(ops) :
              /\ ops[i].id = id
              /\ \/ ops[i].isDeleted
                 \/ ops[i].points # CommittedPoints(c, id).held

\* C6: when the view of a client holds the ids the server log holds, each of
\* them once, and nothing is in flight, redrawAll draws them in the order of
\* the server's ops array.
C6_RenderOrderIsLogOrder ==
  \A c \in Clients :
    (/\ Quiescent(c)
     /\ AllIds(View(c)) = AllIds(ops)
     /\ Len(View(c)) = Len(ops))
      => IdOrder(RenderOrder(c)) = IdOrder(ops)

\* The index in the server log of the operation id (0 if the log has none).
LogIndex(id) == FindIndex(ops, id)

\* C11: when undo has tombstoned a stroke its author had committed and the
\* author has handled the state:replace that followed, the stroke is
\* tombstoned (not rendered) in the author's view as well.
C11_UndoReachesAuthor ==
  \A c \in Clients :
    \A id \in locallyCommittedStrokes[c] :
      (/\ Quiescent(c)
       /\ LogIndex(id) > 0
       /\ ops[LogIndex(id)].isDeleted
       /\ "state:replace" \in handledPinned[c])
        => \A i \in 1..Len(strokes[c]) :
             strokes[c][i].id = id => strokes[c][i].isDeleted

\* C12: when a client handles a state:replace with an empty log, sent after a
\* clear emptied a log that held a stroke the client had committed, the view
\* of the client holds no operation afterwards.
C12_ClearEmptiesView ==
  [][\A c \in Clients :
       (/\ toClient[c] # <<>>
        /\ Head(toClient[c]).type = "state:replace"
        /\ Head(toClient[c]).list = <<>>
        /\ "stroke:append" \in handledPinned[c]
        /\ toClient'[c] = Tail(toClient[c]))
         => strokes'[c] = <<>> /\ shapes'[c] = <<>>]_vars

\* C13: once the author has released the pointer and every message is
\* delivered, the points the server log stores for the stroke are the points
\* the author committed.
C13_ServerHoldsCommittedPoints ==
  \A c \in Clients :
    \A id \in locallyCommittedStrokes[c] :
      (Quiescent(c) /\ LogIndex(id) > 0)
        => ops[LogIndex(id)].points = committedStrokeCoordinates[c][id]

\* C14: an append whose id the log already holds leaves the log as it was, so
\* no id occurs twice in a server log.
C14_NoDuplicateIds ==
  \A i, j \in 1..Len(ops) : i # j => ops[i].id # ops[j].id

\* C16: once the server has received stroke:end for an id, a later
\* stroke:update for that id leaves the points stored for it unchanged.
C16_NoPatchAfterEnd ==
  [][\A i \in 1..Len(ops) :
       (/\ ops[i].id \in ended
        /\ Len(ops') = Len(ops)
        /\ ops'[i].id = ops[i].id)
         => ops'[i].points = ops[i].points]_vars

IsPrefix(a, b) == Len(a) <= Len(b) /\ SubSeq(b, 1, Len(a)) = a

\* C15: every patch applied to a stroke in the server log keeps the points
\* stored before as a prefix of the points stored after.
C15_PatchKeepsPrefix ==
  [][\A i \in 1..Len(ops), j \in 1..Len(ops') :
       ops'[j].id = ops[i].id => IsPrefix(ops[i].points, ops'[j].points)]_vars

\* C17: a patch naming an id the log does not hold leaves the log and the
\* redo stack as they were and creates no operation.
C17_PatchUnknownId ==
  (svLast = "patch" /\ svId \notin AllIds(svPre.ops)) => State = svPre

\* A patch named an id missing from a log that held an operation and had an
\* id on its redo stack.
C17_Witness ==
  /\ svLast = "patch"
  /\ svId \notin AllIds(svPre.ops)
  /\ svPre.ops # <<>>
  /\ svPre.redoStack # <<>>

\* C18: append, patch, undo and redo remove no operation from the log: patch,
\* undo and redo keep the ids and their order, append adds one operation and
\* keeps the ids there were, and undo changes tombstone flags only.
C18_NoOperationRemoved ==
  [][/\ svLast' \in {"patch", "undo", "redo"} => IdOrder(ops') = IdOrder(ops)
     /\ svLast' = "append"
          => AllIds(ops) \subseteq AllIds(ops') /\ Len(ops') = Len(ops) + 1
     /\ svLast' = "undo"
          => \A i \in 1..Len(ops) :
               [ops'[i] EXCEPT !.isDeleted = ops[i].isDeleted] = ops[i]]_vars

\* Two undos in a row tombstoned every operation of a full log, which holds
\* them all still.
C18_Witness ==
  /\ svPrev = "undo" /\ svLast = "undo"
  /\ Len(ops) = MaxOps
  /\ \A i \in 1..Len(ops) : ops[i].isDeleted
  /\ IdOrder(ops) = IdOrder(svPre.ops)
  /\ ops # svPre.ops

\* ---------------------------------------------------------------- C19
\* The events that ask for a global operation.
HistoryEvents == {"history:undo", "history:redo", "history:clear"}

\* The server takes an event of one of the given types off the connection of
\* client c, who has joined the room.
Handles(c, types) ==
  /\ c \in joined
  /\ toServer[c] # <<>>
  /\ Head(toServer[c]).type \in types
  /\ toServer'[c] = Tail(toServer[c])

\* The drawing state a global operation leaves.
HistoryPost(type) ==
  CASE type = "history:undo" -> GlobalUndo(State)
    [] type = "history:redo" -> GlobalRedo(State)
    [] type = "history:clear" -> Clear(State)

Echo(type) == IF type = "stroke:start" THEN "stroke:append" ELSE "shape:append"

HandlesJoin(c) ==
  /\ toServer[c] # <<>>
  /\ Head(toServer[c]).type = "join"
  /\ toServer'[c] = Tail(toServer[c])

\* C21: handling a join queues for the joining participant a state:init that
\* carries the whole log as it stands, tombstoned operations included, in log
\* order, and makes it a participant of the room; and while it is one, every
\* step that changes the log queues one more event for it, which names the
\* operation when the step added one.  So what it was sent misses no
\* operation appended before or after the join.
C21_JoinSendsLogAndEvents ==
  [][\A c \in Clients :
       /\ HandlesJoin(c)
            => /\ c \in joined'
               /\ ops' = ops
               /\ toClient'[c] =
                    Append(toClient[c],
                           Msg("state:init", NoStroke, 0, <<>>, ops))
       /\ (c \in joined /\ ops' # ops)
            => /\ c \in joined'
               /\ Len(toClient'[c]) = Len(toClient[c]) + 1
               /\ SubSeq(toClient'[c], 1, Len(toClient[c])) = toClient[c]
               /\ \A id \in AllIds(ops') \ AllIds(ops) :
                    LET m == toClient'[c][Len(toClient'[c])]
                    IN  /\ m.type \in {"stroke:append", "shape:append"}
                        /\ m.op.id = id]_vars

\* The joining participant is owed a state:init that holds a tombstoned
\* operation and, behind it, the echo of an operation appended after the join.
C21_Witness ==
  \E c \in Clients :
    /\ c \in joined
    /\ Len(toClient[c]) = 2
    /\ toClient[c][1].type = "state:init"
    /\ \E j \in 1..Len(toClient[c][1].list) : toClient[c][1].list[j].isDeleted
    /\ toClient[c][2].type \in {"stroke:append", "shape:append"}
    /\ toClient[c][2].op.id \notin AllIds(toClient[c][1].list)
    /\ AllIds(ops) = AllIds(toClient[c][1].list) \cup {toClient[c][2].op.id}

\* ---------------------------------------------------------------- C24
\* Client c takes an event of the given type off its connection.
Receives(c, type) ==
  /\ toClient[c] # <<>>
  /\ Head(toClient[c]).type = type
  /\ toClient'[c] = Tail(toClient[c])

\* The ids client c has pinned: the strokes it committed and the one it is
\* drawing.
PinnedIds(c) ==
  locallyCommittedStrokes[c]
    \cup (IF activeStroke[c].id # 0 THEN {activeStroke[c].id} ELSE {})

\* The pinned strokes of client c with their pinned points.
PinnedStrokes(c) ==
  {Restore(x, locallyCommittedStrokes[c], committedStrokeCoordinates[c]) :
     x \in {y \in Range(strokes[c]) : y.id \in locallyCommittedStrokes[c]}}
    \cup (IF activeStroke[c].id # 0 THEN {activeStroke[c]} ELSE {})

\* C24: after a state:replace that does not come from clear (its list is not
\* empty), the strokes of the client are the strokes of the list whose ids are
\* not pinned, and the pinned strokes with their pinned points: no more and no
\* fewer.
C24_ReplaceMergesPinned ==
  [][\A c \in Clients :
       (Receives(c, "state:replace") /\ Head(toClient[c]).list # <<>>)
         => LET snap == SelectSeq(Head(toClient[c]).list, IsStroke)
            IN  Range(strokes'[c]) =
                  {s \in Range(snap) : s.id \notin PinnedIds(c)}
                    \cup PinnedStrokes(c)]_vars

\* ---------------------------------------------------------------- C25
\* C25: when stroke:append arrives for an id the client has pinned (the
\* stroke it is drawing, or one it committed), the client's stroke of that id
\* afterwards has the colour, width and mode of the event and the points it
\* had.
C25_AppendSyncsMetadata ==
  [][\A c \in Clients :
       (Receives(c, "stroke:append")
          /\ Head(toClient[c]).op.id \in PinnedIds(c))
         => LET stroke == Head(toClient[c]).op
                i == FindIndex(strokes[c], stroke.id)
            IN  /\ stroke.id \in locallyCommittedStrokes[c]
                     => /\ FindIndex(strokes'[c], stroke.id) = i
                        /\ strokes'[c][i].color = stroke.color
                        /\ strokes'[c][i].points = strokes[c][i].points
                /\ stroke.id = activeStroke[c].id
                     => /\ activeStroke'[c].id = stroke.id
                        /\ activeStroke'[c].color = stroke.color
                        /\ activeStroke'[c].points = activeStroke[c].points]_vars

\* ---------------------------------------------------------------- C26
\* C26: when stroke:append arrives for a stroke another participant
\* authored, under an id the client has not pinned, the client's stroke of
\* that id afterwards is the operation of the event, whether or not the view
\* held a stroke of that id before.
C26_ForeignAppendVerbatim ==
  [][\A c \in Clients :
       (/\ Receives(c, "stroke:append")
        /\ Head(toClient[c]).op.userId # c
        /\ Head(toClient[c]).op.id \notin PinnedIds(c))
         => LET stroke == Head(toClient[c]).op
                i == FindIndex(strokes'[c], stroke.id)
            IN  i > 0 /\ strokes'[c][i] = stroke]_vars

\* ---------------------------------------------------------------- C27
\* What client c holds: its strokes, its shapes, the stroke it is drawing and
\* what it pinned.
Held(c) ==
  <<strokes[c], shapes[c], activeStroke[c], isPointerDown[c],
    locallyCommittedStrokes[c], committedStrokeCoordinates[c]>>

\* C27: a stroke:patch for an id the client has pinned (the stroke it is
\* drawing, or one it committed) changes nothing the client holds; a
\* stroke:patch for the id of another participant's stroke in the view puts
\* the points of the event in the place of that stroke's points and changes
\* nothing else.
C27_PatchGuarded ==
  [][\A c \in Clients :
       Receives(c, "stroke:patch")
         => LET m == Head(toClient[c])
                i == FindIndex(strokes[c], m.id)
            IN  /\ m.id \in PinnedIds(c) => Held(c)' = Held(c)
                /\ (m.id \notin PinnedIds(c) /\ i > 0 /\ strokes[c][i].userId # c)
                     => /\ strokes'[c] = [strokes[c] EXCEPT ![i].points = m.points]
                        /\ activeStroke'[c] = activeStroke[c]
                        /\ shapes'[c] = shapes[c]]_vars

\* The client has handled a stroke:patch that named a stroke it had committed,
\* whose points are the stored ones, and holds another participant's stroke
\* with the points a stroke:patch carried.
C27_Witness ==
  \E c \in Clients :
    /\ "stroke:patch" \in handledPinned[c]
    /\ \E i \in 1..Len(strokes[c]) :
         /\ strokes[c][i].id \in locallyCommittedStrokes[c]
         /\ strokes[c][i].points = committedStrokeCoordinates[c][strokes[c][i].id]
         /\ strokes[c][i].points \notin PatchedPoints
    /\ \E i \in 1..Len(strokes[c]) :
         /\ strokes[c][i].userId # c
         /\ strokes[c][i].points \in PatchedPoints

\* ---------------------------------------------------------------- C28
\* C28: a stroke:patch for an id of which the view holds no stroke changes
\* nothing the client holds: no stroke is made up for the id.
C28_UnknownPatchDropped ==
  [][\A c \in Clients :
       (/\ Receives(c, "stroke:patch")
        /\ FindIndex(strokes[c], Head(toClient[c]).id) = 0)
         => Held(c)' = Held(c)]_vars

\* The client has handled a stroke:patch for an id of which its view, which
\* holds other strokes, held and holds no stroke.
C28_Witness ==
  \E c \in Clients :
    /\ strokes[c] # <<>>
    /\ \E id \in unknownPatched : FindIndex(strokes[c], id) = 0

\* ---------------------------------------------------------------- C29
\* C29: a stroke that was being drawn when the pointer left the canvas is
\* abandoned: its id is not among the committed ids of the client and the
\* strokes the client renders hold no stroke of that id.
C29_LeaveAbandons ==
  \A c \in Clients : \A id \in pointerLeft :
    /\ id \notin locallyCommittedStrokes[c]
    /\ FindIndex(strokes[c], id) = 0

\* The events of the drawing a connection sends.
DrawingEvents == {"stroke:start", "stroke:update", "history:undo",
                  "history:redo", "history:clear"}

\* The server emitted an event to socket s in this step.
EmittedTo(s) == Len(toClient'[s]) > Len(toClient[s])

\* C22: rooms.get(name) creates the room, with an empty log and redo stack,
\* the first time the name is used, and returns that same room ever after:
\* no room leaves the Map; a connection, a join and a disconnect leave the log
\* and the redo stack of every room as they were, also when the disconnect
\* takes the last user of the room; and the state:init a join is answered
\* with carries the log the room had kept.
C22_RoomsKept ==
  [][/\ \A name \in DOMAIN rooms : name \in DOMAIN rooms'
     /\ \A name \in DOMAIN rooms' \ DOMAIN rooms :
          /\ served'.type = "join" /\ served'.room = name
          /\ rooms'[name].state = EmptyState
     /\ served'.type \in {"connection", "join", "disconnect"}
          => \A name \in DOMAIN rooms : rooms'[name].state = rooms[name].state
     /\ \A s \in Users :
          served'.type = "join" /\ served'.socket = s /\ EmittedTo(s)
            => /\ toClient'[s][Len(toClient'[s])].type = "state:init"
               /\ toClient'[s][Len(toClient'[s])].list =
                    IF served'.room \in DOMAIN rooms
                    THEN rooms[served'.room].state.ops ELSE <<>>
               /\ s \in rooms'[served'.room].users]_vars

\* The last user of a room has left it and the room keeps a log with a
\* tombstone and a redo stack.
C22_Witness ==
  /\ served.type = "disconnect"
  /\ served.room \in DOMAIN rooms
  /\ rooms[served.room].users = {}
  /\ rooms[served.room].state.ops # <<>>
  /\ rooms[served.room].state.redoStack # <<>>

\* C23: a stroke:start, stroke:update, history:undo, history:redo or
\* history:clear the server handles for the room of its socket leaves the log
\* and the redo stack of every other room as they were.
C23_RoomsIndependent ==
  [][served'.type \in DrawingEvents
       => \A name \in DOMAIN rooms :
            name # served'.room
              => /\ name \in DOMAIN rooms'
                 /\ rooms'[name].state = rooms[name].state]_vars

\* A drawing event changed the log of its room while another room holds a
\* log of its own.
C23_Witness ==
  /\ served.type \in DrawingEvents
  /\ served.room \in DOMAIN rooms
  /\ \E name \in DOMAIN rooms :
       /\ name # served.room
       /\ rooms[name].state.ops # <<>>
       /\ rooms[served.room].state.ops # <<>>
       /\ rooms[name].state # rooms[served.room].state

\* C30: when handling a stroke:start fails, the log and the redo stack are
\* as they were before the event.
C30_FailedAppendDropped ==
  svLast = "append:failed" => State = svPre

\* ---------------------------------------------------------------- C31
\* C31: the stroke:append the server queues for a stroke:start it handled
\* from a joined participant carries the serverTimestamp the stored
\* operation was given.
C31_AppendCarriesServerTimestamp ==
  [][\A c \in Clients :
       Handles(c, {"stroke:start"}) /\ c \in joined
         => LET m == Head(toServer[c])
                e == toClient'[c][Len(toClient'[c])]
            IN  /\ e.type = "stroke:append"
                /\ e.op.id = m.op.id
                /\ \E i \in 1..Len(ops') :
                     /\ ops'[i].id = m.op.id
                     /\ ops'[i].serverTimestamp = e.op.serverTimestamp]_vars

\* ---------------------------------------------------------------- C32
\* Operation a with its points and its tombstone flag left out: what is
\* fixed when the operation enters the log.
Identity(a) ==
  [id |-> a.id, userId |-> a.userId, type |-> a.type,
   timestamp |-> a.timestamp, serverTimestamp |-> a.serverTimestamp,
   color |-> a.color]

\* C32: patchPoints changes nothing but the points of the operation it
\* names, and leaves the redo stack and every tombstone flag as they were;
\* globalUndo and globalRedo change nothing but tombstone flags and the redo
\* stack; appendOp leaves every operation that was in the log in it, with the
\* id, userId, timestamp and serverTimestamp it had.
C32_StampsFixed ==
  /\ svLast = "patch"
       => /\ redoStack = svPre.redoStack
          /\ Len(ops) = Len(svPre.ops)
          /\ \A i \in 1..Len(ops) :
               /\ ops[i] = [svPre.ops[i] EXCEPT !.points = ops[i].points]
               /\ i # FindIndex(svPre.ops, svId) => ops[i] = svPre.ops[i]
  /\ svLast \in {"undo", "redo"}
       => /\ Len(ops) = Len(svPre.ops)
          /\ \A i \in 1..Len(ops) :
               ops[i] = [svPre.ops[i] EXCEPT !.isDeleted = ops[i].isDeleted]
  /\ svLast = "append"
       => \A i \in 1..Len(svPre.ops) :
            \E j \in 1..Len(ops) :
              /\ Identity(ops[j]) = Identity(svPre.ops[i])
              /\ ops[j].points = svPre.ops[i].points

\* patchPoints gave an operation new points while the log holds a tombstone
\* and the redo stack is not empty.
C32_Witness ==
  /\ svLast = "patch"
  /\ ops # svPre.ops
  /\ redoStack # <<>>
  /\ \E i \in 1..Len(ops) : ops[i].isDeleted
  /\ \E i \in 1..Len(ops) : ops[i].serverTimestamp > 0

\* ---------------------------------------------------------------- C33
\* C33: every id on the redo stack names an operation of the log whose
\* tombstone flag is set, and no id is on the stack twice.
C33_RedoStackNamesTombstones ==
  \A k \in 1..Len(redoStack) :
    /\ \E i \in 1..Len(ops) : ops[i].id = redoStack[k] /\ ops[i].isDeleted
    /\ \A l \in 1..Len(redoStack) : redoStack[l] = redoStack[k] => l = k

\* ---------------------------------------------------------------- C34
\* C34: no operation id occurs more than once among the strokes and the
\* shapes of a client's view.
C34_ViewIdsDistinct ==
  \A c \in Clients :
    LET all == strokes[c] \o shapes[c]
    IN  \A i, j \in 1..Len(all) : all[i].id = all[j].id => i = j

\* ---------------------------------------------------------------- C35
\* C35: for every id a client has committed, it has stored the committed
\* coordinates and its strokes hold exactly one stroke of that id.
C35_PinnedStored ==
  \A c \in Clients :
    \A id \in locallyCommittedStrokes[c] :
      /\ id \in DOMAIN committedStrokeCoordinates[c]
      /\ Cardinality({i \in 1..Len(strokes[c]) : strokes[c][i].id = id}) = 1

\* A client that committed a stroke has since handled a state:replace and a
\* state:init that name it.
C35_Witness ==
  \E c \in Clients :
    /\ locallyCommittedStrokes[c] # {}
    /\ {"state:replace", "state:init"} \subseteq handledPinned[c]

\* ---------------------------------------------------------------- C36
\* C36: whenever the needsRedraw flag of a client goes from set to cleared,
\* the offscreen canvas shows the strokes and shapes the client holds then.
C36_ClearedOnlyByRedraw ==
  [][\A c \in Clients :
       needsRedraw[c] /\ ~needsRedraw'[c]
         => offscreen'[c] = DrawnOps(strokes'[c], shapes'[c])]_vars

\* ---------------------------------------------------------------- C37
\* C37: a connection is in the users of no room but the one it joined last,
\* and of none once it is down, and the events of no other room are emitted
\* to it.
C37_OneRoomPerConnection ==
  \A s \in Users :
    /\ \A name \in DOMAIN rooms :
         s \in rooms[name].users
           => sockets[s].connected /\ sockets[s].joinedRoom = name
    /\ \A name \in sockets[s].member : sockets[s].joinedRoom = name

\* ---------------------------------------------------------------- C38
\* C38: after the room is loaded its log holds the operations of the file:
\* the same ids with the same points and the same tombstone flags.
C38_LoadRestoresSaved ==
  svLast = "load"
    => /\ Len(ops) = Len(roomFile.ops)
       /\ \A i \in 1..Len(roomFile.ops) :
            \E j \in 1..Len(ops) :
              /\ ops[j].id = roomFile.ops[i].id
              /\ ops[j].points = roomFile.ops[i].points
              /\ ops[j].isDeleted = roomFile.ops[i].isDeleted

\* ---------------------------------------------------------------- C39
\* The events a connection sends that the server serves in its room.
RoomEvents == DrawingEvents \cup {"shape:add", "cursor"}

\* C39: a stroke:start, stroke:update, shape:add, history:undo, history:redo,
\* history:clear or cursor the server handles for a connection that joined no
\* room leaves every room as it was (its log, its redo stack and its users)
\* and is emitted to no connection.
C39_UnjoinedIgnored ==
  [][(/\ served'.type \in RoomEvents
       /\ served'.room = ""
       /\ \A s \in Users : Len(toClient'[s]) >= Len(toClient[s]))
       => (/\ rooms' = rooms
           /\ \A t \in Users : ~EmittedTo(t))]_vars

\* An event of a connection that joined no room was handled while a room
\* holds a log and a user that would have received the event.
C39_Witness ==
  /\ served.type \in RoomEvents
  /\ served.room = ""
  /\ sockets[served.socket].connected
  /\ sockets[served.socket].joinedRoom = ""
  /\ \E name \in DOMAIN rooms :
       /\ rooms[name].state.ops # <<>>
       /\ rooms[name].users # {}

\* ---------------------------------------------------------------- C40
\* The socket is on its connection number k.
OnConnection(k) == link.connected /\ link.conn = k

\* C40: on every connection of the socket join is emitted at most once; the
\* timer a connection set emits join, unless join was emitted on that
\* connection before, when it fires while the connection is up; and a
\* connection that stays up has join emitted on it.
C40_JoinOncePerConnection ==
  /\ [](\A k \in 1..MaxConnects : link.joins[k] <= 1)
  /\ [][(/\ link.timers # <<>>
         /\ link'.timers = Tail(link.timers)
         /\ link.connected
         /\ Head(link.timers) = link.conn)
         => link'.joins[link.conn] = 1]_vars
  /\ \A k \in 1..MaxConnects :
       OnConnection(k) ~> (link.joins[k] = 1 \/ ~OnConnection(k))

\* A connection was dropped before its timers fired, and the timers of that
\* connection and of the next all fired on the next, which has its one join.
C40_Witness ==
  /\ OnConnection(2)
  /\ link.joins[1] = 0
  /\ link.joins[2] = 1
  /\ link.timers = <<>>

====
